---- MODULE Spec2Model ----
(***************************************************************************)
(* Zone-lifecycle tracker of the SMC signal bot: the analysis loop of      *)
(* main.py (analysis_loop) over the global mapping active_pois_dict.       *)
(*                                                                         *)
(* One pass of the `while True` body is a cycle.  The position of the      *)
(* coroutine inside the cycle is pc; the steps follow the numbered         *)
(* comments of the source (1. update data, 2. analyse, 3. diff, 4. arrival *)
(* check, 5. send, 6. wait).  Prices are small integers, formation         *)
(* timestamps are opaque values compared for equality only.                *)
(***************************************************************************)
EXTENDS Integers, Sequences, FiniteSets, TLC

\* ------------------------------------------------------------------ bounds
\* Highest upper bound of a zone; quotes range over 0..MaxHigh+1 so that a
\* price below, on either edge of, inside and above every zone exists.
MaxHigh == 2
\* Longest candidate list one analysis returns.
MaxCands == 2
\* Most notification tasks running at once; a further one waits for an end.
MaxTasks == 2
\* Candle prices are 1..MaxPrice.
MaxPrice == 3
\* Candles that follow the formation candle of a zone in a mitigation check.
MaxAfter == 2
\* Longest frame given to the swing and gap detectors and to the structure
\* break resolver.
MaxLen == 5
\* Swing prices in the frames given to the structure break resolver.
MaxMark == 2
\* Longest M15 series given to analyze_m15_setup.
MaxFrame == 7
\* Longest series of the few kinds of candle of LongSeriesCandles.
MaxLongFrame == 8
\* Largest `retries` and `delay` a retrying function is called with.
MaxRetries == 4
MaxDelay == 1
\* Most candles the terminal has of a timeframe, and the latest time.time().
MaxRows == 2
MaxClock == 3
\* Days the clock of get_seconds_until_next_m15_candle is read on.
MaxDay == 2
\* The zone finder scans the last 96 candles and analyze_m15_setup ranges
\* over num_candles = 96; the sweep check looks 5 candles back and the gap
\* search 5 candles ahead.  The model keeps the four windows, scaled to
\* series of MaxFrame candles: the scan is longer than the gap search by
\* enough for a gap of the range to lie past it.
ScanCandles == 5
NumCandles == 5
SweepLookback == 2
FvgSearchLimit == 2

\* ------------------------------------------------------- program constants
\* send_telegram_message_async(message, retries=3, delay=5)
Retries == 3
\* config.STRATEGY_M15_RANGE_CANDLES
STRATEGY_M15_RANGE_CANDLES == 300
\* config.LOOKBACK_H1, LOOKBACK_M15, LOOKBACK_M5
LOOKBACK_H1 == 250
LOOKBACK_M15 == 350
LOOKBACK_M5 == 75

\* ------------------------------------------------------------------ values
\* Python's None.
None == "None"

\* Formation timestamps (the 'index' of a POI).
Timestamps == {"t1", "t2"}

Prices == 0..(MaxHigh + 1)

Directions == {"Bullish", "Bearish"}

\* What the analysis hands to the loop, one record per POI: the keys the loop
\* reads with poi.get(...).  A record may lack its 'index' (poi.get('index')
\* is None); the producers in smc_analyzer always set direction, low, high.
ZoneCandidates ==
    [index : Timestamps, low : {1}, high : 1..MaxHigh, direction : Directions]
    \cup {[index |-> None, low |-> 1, high |-> 1, direction |-> "Bullish"]}

\* Outcome of the call smc_analyzer.analyze_m15_pending_pois(...): it raises,
\* it returns something that is not a list, or it returns a list.  (The
\* smc_analyzer module at hand defines no function of that name, so with it
\* the attribute lookup itself raises; the loop is written for all three.)
AnalysisOutcomes == {"raise", "not_a_list", "list"}

\* A tick of mt5_connector.get_current_price: {'bid':, 'ask':, 'time':}.
Quotes == {q \in [bid : Prices, ask : Prices] : q.bid <= q.ask}

\* get_current_price returned None (no connection, no symbol info, no tick).
NoTick == [bid |-> 0 - 1, ask |-> 0 - 1]

\* Number of candles get_ohlc_data returns (0: None or no rows); the lengths
\* around the analysis threshold are the ones the loop distinguishes.
FetchLens == {0, STRATEGY_M15_RANGE_CANDLES - 1, STRATEGY_M15_RANGE_CANDLES}

\* The two alert kinds the loop formats and queues.
NewZone(k) == [type |-> "NEW_POI_M15", index |-> k]

ZoneArrived(k) == [type |-> "PRICE_ENTERING_POI", index |-> k]

\* ------------------------------------------------------------------- state
VARIABLES
    pc,                      \* position of analysis_loop inside its cycle
    data_store,              \* data_manager.data_store[M15]: stored length, 0 = nothing
    df,                      \* update_data's df of this cycle (0 = None/empty)
    active_pois_dict,        \* the mapping, as Python keeps it: in insertion order
    is_list,                 \* isinstance(pending_pois_list, list)
    n_pois,                  \* elements of pending_pois_list the for loop has taken
    current_active_indices,  \* keys of the mapping when step 3 began
    found_indices,           \* indices seen in pending_pois_list so far
    alert_messages_to_send,  \* alerts queued by this cycle
    live_price_data,         \* last result of get_live_price_data()
    arrival_log,             \* history: per timestamp, arrivals observed while tracked
    announced,               \* history: timestamps with a NewZone alert and no pop since
    quote_repeated,          \* history: step 4 got the quote the previous check got
    n_sent,                  \* step 5: alerts the `for msg` loop has taken
    send_tasks,              \* tasks made by asyncio.create_task still running
    delivery_log,            \* history: how the task that ended last ended
    verpoi_reply,            \* the reply the /verpoi handler built last
    tasks,                   \* the notification tasks of step 5, one record each
    delivered,               \* messages the chat received, in order of receipt
    candles,                 \* the OHLC frame an analyzer function is given
    poi_candidate,           \* _check_mitigation: the zone
    poi_iloc,                \* _check_mitigation: position of its formation candle
    mitigated,               \* _check_mitigation: the value returned last
    mit_checked,             \* mitigated is the value for the present frame
    lookback,                \* find_swing_points: the window on either side
    df_with_swings,          \* the frame with its SwingHigh and SwingLow columns
    fvgs,                    \* find_fvg: the list returned
    range_high_idx,          \* find_last_bos_in_range: label of the range high
    range_low_idx,           \* find_last_bos_in_range: label of the range low
    last_bos_up,             \* find_last_bos_in_range: the break-up candidate
    last_bos_down,           \* find_last_bos_in_range: the break-down candidate
    final_bos,               \* find_last_bos_in_range: the value returned
    bias,                    \* analyze_m15_setup: bias derived from it
    m15_df,                  \* analyze_m15_setup: the OHLC series it is given
    tr_24h,                  \* analyze_m15_setup: the trading range
    setup_bias,              \* analyze_m15_setup: bias given to the zone finder
    recent_fvgs,             \* analyze_m15_setup: gaps of the range
    high_prob_poi,           \* find_m15_poi_in_range: the value returned
    retries,                 \* connect_mt5 / send_telegram_message_async: the argument
    delay,                   \* the same: seconds to sleep before the next attempt
    call,                    \* the call followed: iteration i of its loop and where it is
    outcomes,                \* history: how each attempt of the call ended
    sleeps,                  \* history: the iteration each sleep of the call followed
    result,                  \* <<v>> once the call returned v, <<>> before
    bot_ready,               \* telegram_notifier.bot is not None
    chat_id_set,             \* config.TELEGRAM_CHAT_ID is not empty
    tf_data_store,           \* data_manager.data_store, every timeframe
    last_update_time,        \* data_manager.last_update_time
    clock,                   \* time.time()
    update_arg,              \* update_data: the timeframe it was called with
    terminal,                \* what mt5.terminal_info() said during that call
    rates,                   \* what mt5.copy_rates_from_pos came to during it
    update_result,           \* update_data: the value returned
    now_utc,                 \* get_seconds_until_next_m15_candle: datetime.now(utc)
    wait_seconds             \* get_seconds_until_next_m15_candle: the value returned

loop_vars == <<pc, data_store, df, active_pois_dict, is_list, n_pois,
               current_active_indices, found_indices, alert_messages_to_send,
               live_price_data, arrival_log, announced, quote_repeated>>

\* State of the other coroutines of the event loop.
\* The tasks of send_telegram_message_async followed one by one.
delivery_vars == <<tasks, delivered>>

async_vars == <<n_sent, send_tasks, delivery_log, verpoi_reply, delivery_vars>>

\* Arguments and results of the functions of smc_analyzer.
mit_vars == <<poi_candidate, poi_iloc, mitigated, mit_checked>>

swing_vars == <<lookback, df_with_swings>>

bos_vars == <<range_high_idx, range_low_idx, last_bos_up, last_bos_down,
              final_bos, bias>>

setup_vars == <<m15_df, tr_24h, setup_bias, recent_fvgs, high_prob_poi>>

analyzer_vars == <<candles, mit_vars, swing_vars, fvgs, bos_vars, setup_vars>>

\* A call of one of the retrying functions, followed attempt by attempt.
call_vars == <<retries, delay, call, outcomes, sleeps, result, bot_ready, chat_id_set>>

\* data_manager's module state and a call of update_data.
dm_vars == <<tf_data_store, last_update_time, clock, update_arg, terminal, rates,
             update_result>>

timer_vars == <<now_utc, wait_seconds>>

service_vars == <<call_vars, dm_vars, timer_vars>>

vars == <<loop_vars, async_vars, analyzer_vars, service_vars>>

\* ------------------------------------------------------- dict operations
Keys(d) == {d[i].index : i \in 1..Len(d)}

Pos(d, k) == CHOOSE i \in 1..Len(d) : d[i].index = k

Get(d, k) == d[Pos(d, k)]

\* d[k] = v: an existing key keeps its place, a new key goes last.
SetItem(d, k, v) ==
    IF k \in Keys(d) THEN [d EXCEPT ![Pos(d, k)] = v] ELSE Append(d, v)

\* [d.pop(idx) for idx in ks]
PopAll(d, ks) == SelectSeq(d, LAMBDA e : e.index \notin ks)

\* poi['arrival_alerted'] = False; active_pois_dict[poi_index] = poi: the
\* record stored is the candidate with every key it has.
Tracked(poi) ==
    [f \in DOMAIN poi \cup {"arrival_alerted"} |->
        IF f = "arrival_alerted" THEN FALSE ELSE poi[f]]

\* Variant: the candidate of a tracked index takes the place of its record.
ProcessPoi_Replaces(d, found, alerts, current, poi) ==
    IF poi.index = None
    THEN [dict |-> d, found |-> found, alerts |-> alerts]
    ELSE IF poi.index \notin current
         THEN [dict   |-> SetItem(d, poi.index, Tracked(poi)),
               found  |-> found \cup {poi.index},
               alerts |-> Append(alerts, NewZone(poi.index))]
         ELSE [dict   |-> SetItem(d, poi.index, Tracked(poi)),
               found  |-> found \cup {poi.index},
               alerts |-> alerts]

\* Variant: a new POI is tracked without an alert.
ProcessPoi_NoAlert(d, found, alerts, current, poi) ==
    IF poi.index = None
    THEN [dict |-> d, found |-> found, alerts |-> alerts]
    ELSE IF poi.index \notin current
         THEN [dict   |-> SetItem(d, poi.index, Tracked(poi)),
               found  |-> found \cup {poi.index},
               alerts |-> alerts]
         ELSE [dict |-> d, found |-> found \cup {poi.index}, alerts |-> alerts]

\* Variant: a POI is treated as new whether or not its index is tracked.
ProcessPoi_AlwaysNew(d, found, alerts, current, poi) ==
    IF poi.index = None
    THEN [dict |-> d, found |-> found, alerts |-> alerts]
    ELSE [dict   |-> SetItem(d, poi.index, Tracked(poi)),
          found  |-> found \cup {poi.index},
          alerts |-> Append(alerts, NewZone(poi.index))]

\* Variant: the alert of a new POI is put in front of the queue.
ProcessPoi_Prepend(d, found, alerts, current, poi) ==
    IF poi.index = None
    THEN [dict |-> d, found |-> found, alerts |-> alerts]
    ELSE IF poi.index \notin current
         THEN [dict   |-> SetItem(d, poi.index, Tracked(poi)),
               found  |-> found \cup {poi.index},
               alerts |-> <<NewZone(poi.index)>> \o alerts]
         ELSE [dict |-> d, found |-> found \cup {poi.index}, alerts |-> alerts]

\* ------------------------------------------------ step 3: one list element
\* Body of `for poi in pending_pois_list` for one element: the new value of
\* the mapping, of found_indices and of the queued alerts.  The membership
\* test is against `current`, the key set taken before the loop.
ProcessPoi(d, found, alerts, current, poi) ==
    IF poi.index = None
    THEN [dict |-> d, found |-> found, alerts |-> alerts]
    ELSE IF poi.index \notin current
         THEN [dict   |-> SetItem(d, poi.index, Tracked(poi)),
               found  |-> found \cup {poi.index},
               alerts |-> Append(alerts, NewZone(poi.index))]
         ELSE [dict |-> d, found |-> found \cup {poi.index}, alerts |-> alerts]

\* Variant: every POI tracked before the loop is popped.
RemoveStale_DropsTracked(d, current, found) == PopAll(d, current)

\* Variant: nothing is popped.
RemoveStale_KeepAll(d, current, found) == d

\* indices_to_remove = current_active_indices - found_indices, then the pops.
RemoveStale(d, current, found) == PopAll(d, current \ found)

\* ------------------------------------------------ step 4: arrival check
\* Variant: the sides of the quote are exchanged.
SelectPrice_Swapped(direction, q) == IF direction = "Bullish" THEN q.bid ELSE q.ask

\* current_price = live_price_data['ask'] if poi_direction == 'Bullish'
\*                 else live_price_data['bid']
SelectPrice(direction, q) == IF direction = "Bullish" THEN q.ask ELSE q.bid

\* Variant: the upper edge of the zone is excluded.
IsInsidePoi_UpperExclusive(low, price, high) == low <= price /\ price < high

\* is_inside_poi = poi_low <= current_price <= poi_high
IsInsidePoi(low, price, high) == low <= price /\ price <= high

\* Variant: arrival_alerted is never reset once the price has left the zone.
PoiBranch_NoReset(poi, q) ==
    IF IsInsidePoi(poi.low, SelectPrice(poi.direction, q), poi.high)
       /\ ~poi.arrival_alerted
    THEN "alert" ELSE "none"

\* Variant: the alert does not look at arrival_alerted.
PoiBranch_AlertWheneverInside(poi, q) ==
    IF IsInsidePoi(poi.low, SelectPrice(poi.direction, q), poi.high)
    THEN "alert"
    ELSE IF poi.arrival_alerted THEN "reset" ELSE "none"

\* The branch one POI takes in the for loop over list(active_pois_dict.items()).
PoiBranch(poi, q) ==
    IF poi.direction = None THEN "skip"
    ELSE LET inside == IsInsidePoi(poi.low, SelectPrice(poi.direction, q), poi.high)
         IN  IF inside /\ ~poi.arrival_alerted THEN "alert"
             ELSE IF ~inside /\ poi.arrival_alerted THEN "reset"
             ELSE "none"

\* The mapping after the loop: only arrival_alerted changes, in place.
ArrivalDict(d, q) ==
    [i \in 1..Len(d) |->
        CASE PoiBranch(d[i], q) = "alert" -> [d[i] EXCEPT !.arrival_alerted = TRUE]
          [] PoiBranch(d[i], q) = "reset" -> [d[i] EXCEPT !.arrival_alerted = FALSE]
          [] OTHER -> d[i]]

\* The alerts the loop appends, in the order the mapping is iterated.
RECURSIVE ArrivalAlerts(_, _, _)
ArrivalAlerts(d, q, i) ==
    IF i > Len(d) THEN <<>>
    ELSE (IF PoiBranch(d[i], q) = "alert" THEN <<ZoneArrived(d[i].index)>> ELSE <<>>)
         \o ArrivalAlerts(d, q, i + 1)

\* Variant: the loop runs without the `if live_price_data:` test.
ArrivalCheck_NoGuard(d, alerts, q) ==
    [dict |-> ArrivalDict(d, q), alerts |-> alerts \o ArrivalAlerts(d, q, 1)]

\* Step 4 once a price was asked for: `if live_price_data:` guards the loop.
ArrivalCheck(d, alerts, q) ==
    IF q = NoTick
    THEN [dict |-> d, alerts |-> alerts]
    ELSE [dict |-> ArrivalDict(d, q), alerts |-> alerts \o ArrivalAlerts(d, q, 1)]

\* ------------------------------------------------------- arrival history
\* arrival_log records, for a timestamp while it is tracked, what the arrival
\* checks have shown so far: "pending" (no arrival alert yet), "arrived" (one
\* alert, price not seen outside since), "rearmed" (price seen outside after an
\* alert), "rearrived" (alerted again after that).  "bad" marks a sequence the
\* toggling rule excludes: an alert with the price outside, two alerts with no
\* check outside in between, or no alert on entering an armed zone.
Inside(poi, q) ==
    LET price == IF poi.direction = "Bullish" THEN q.ask ELSE q.bid
    IN  poi.low <= price /\ price <= poi.high

Observe(stage, emitted, inside) ==
    CASE emitted /\ inside  ->
            IF stage = "pending" THEN "arrived"
            ELSE IF stage = "rearmed" THEN "rearrived" ELSE "bad"
      [] emitted /\ ~inside -> "bad"
      [] ~emitted /\ inside ->
            IF stage \in {"pending", "rearmed"} THEN "bad" ELSE stage
      [] OTHER ->
            IF stage \in {"arrived", "rearrived"} THEN "rearmed" ELSE stage

Emitted(alerts, k) == \E i \in 1..Len(alerts) : alerts[i] = ZoneArrived(k)

LogArrivals(log, d, q, added) ==
    [k \in Timestamps |->
        IF k \in Keys(d)
        THEN Observe(log[k], Emitted(added, k), Inside(Get(d, k), q))
        ELSE log[k]]

\* A timestamp that enters or leaves the mapping starts afresh.
\* The timestamps of the NewZone alerts among `alerts`.
NewZonesIn(alerts) ==
    {k \in Timestamps : \E i \in 1..Len(alerts) : alerts[i] = NewZone(k)}

LogReset(log, ks) == [k \in Timestamps |-> IF k \in ks THEN "pending" ELSE log[k]]

\* ----------------------------------------------------------------- actions
LoopInit ==
    /\ pc = "cycle_start"
    /\ data_store = 0
    /\ df = 0
    /\ active_pois_dict = <<>>
    /\ is_list = FALSE
    /\ n_pois = 0
    /\ current_active_indices = {}
    /\ found_indices = {}
    /\ alert_messages_to_send = <<>>
    /\ live_price_data = NoTick
    /\ arrival_log = [k \in Timestamps |-> "pending"]
    /\ announced = {}
    /\ quote_repeated = FALSE

\* No task has been made and no command handled.
AsyncInit ==
    /\ n_sent = 0
    /\ send_tasks = 0
    /\ delivery_log = "none"
    /\ verpoi_reply = "none"
    /\ tasks = <<>>
    /\ delivered = <<>>

\* A price that is None.
NoPrice == 0 - 1

\* No analyzer function has been given anything.
MitIdle ==
    /\ poi_candidate = [type |-> "OB", direction |-> None, low |-> NoPrice,
                        high |-> NoPrice, level_50 |-> NoPrice]
    /\ poi_iloc = 0
    /\ mitigated = FALSE
    /\ mit_checked = FALSE

SwingIdle == lookback = 3 /\ df_with_swings = <<>>

\* None where a BOS dict is expected, and a label not yet chosen.
NoBos == [type |-> None, index |-> 0 - 1, broken_level |-> 0 - 1, price |-> 0 - 1]

NoIdx == 0 - 1

BosIdle ==
    /\ range_high_idx = NoIdx
    /\ range_low_idx = NoIdx
    /\ last_bos_up = NoBos
    /\ last_bos_down = NoBos
    /\ final_bos = NoBos
    /\ bias = "Undetermined"

\* None where the trading range dict or the POI dict is expected.
NoRange == [low |-> 0 - 1, high |-> 0 - 1, eq |-> 0 - 1]

NoFvg == [index |-> NoIdx, top |-> NoPrice, bottom |-> NoPrice, type |-> None,
          mid |-> NoPrice]

NoPoi == [type |-> None, index |-> NoIdx, high |-> NoPrice, low |-> NoPrice,
          level_50 |-> NoPrice, direction |-> None, fvg_details |-> NoFvg]

SetupIdle ==
    /\ m15_df = <<>>
    /\ tr_24h = NoRange
    /\ setup_bias = "Undetermined"
    /\ recent_fvgs = <<>>
    /\ high_prob_poi = NoPoi

\* No call of a retrying function is being followed.
NoCall == [i |-> 0, at |-> "idle"]

CallIdle ==
    /\ retries = 0
    /\ delay = 0
    /\ call = NoCall
    /\ outcomes = <<>>
    /\ sleeps = <<>>
    /\ result = <<>>
    /\ bot_ready = TRUE
    /\ chat_id_set = TRUE

\* config.TIMEFRAME_HTF, TIMEFRAME_LTF, TIMEFRAME_SIGNAL
Timeframes == {"H1", "M15", "M5"}

\* data_store[timeframe] = None: nothing stored yet.
NoFrame == [rows |-> 0, last |-> 0]

\* copy_rates_from_pos has not been called.
NoRates == [kind |-> "not_called", rows |-> 0]

\* data_manager as the import leaves it.
DmIdle ==
    /\ tf_data_store = [t \in Timeframes |-> NoFrame]
    /\ last_update_time = [t \in Timeframes |-> 0]
    /\ clock = 0
    /\ update_arg = None
    /\ terminal = None
    /\ rates = NoRates
    /\ update_result = None

TimerIdle ==
    /\ now_utc = [day |-> 1, hour |-> 0, minute |-> 0, second |-> 0, microsecond |-> 0]
    /\ wait_seconds = 0

ServiceIdle == CallIdle /\ DmIdle /\ TimerIdle

AnalyzerIdle ==
    candles = <<>> /\ MitIdle /\ SwingIdle /\ fvgs = <<>> /\ BosIdle /\ SetupIdle

Init == LoopInit /\ AsyncInit /\ AnalyzerIdle /\ ServiceIdle

\* Variant: a series one candle short passes.
InsufficientData_OffByOne(m15_data, num_analysis_candles) ==
    m15_data = 0 \/ m15_data < num_analysis_candles - 1

\* if m15_data is None or m15_data.empty or len(m15_data) < num_analysis_candles
InsufficientData(m15_data, num_analysis_candles) ==
    m15_data = 0 \/ m15_data < num_analysis_candles

\* Step 1.  update_data stores a non-empty series and returns True, or keeps
\* the store and returns False; then the length test.  Either failure sleeps
\* 60 s and `continue`s.
UpdateData ==
    /\ pc = "cycle_start"
    /\ \E n \in FetchLens :
          /\ df' = n
          /\ data_store' = IF n # 0 THEN n ELSE data_store
          /\ pc' = IF n = 0 \/ InsufficientData(data_store', STRATEGY_M15_RANGE_CANDLES)
                   THEN "sleep_60" ELSE "analyze"
    /\ UNCHANGED <<active_pois_dict, is_list, n_pois, current_active_indices,
                   found_indices, alert_messages_to_send, live_price_data,
                   arrival_log, announced, quote_repeated>>
    /\ UNCHANGED async_vars
    /\ UNCHANGED <<analyzer_vars, service_vars>>

\* await asyncio.sleep(60); continue
SleepRetry ==
    /\ pc = "sleep_60"
    /\ pc' = "cycle_start"
    /\ df' = 0
    /\ UNCHANGED <<data_store, active_pois_dict, is_list, n_pois,
                   current_active_indices, found_indices, alert_messages_to_send,
                   live_price_data, arrival_log, announced, quote_repeated>>
    /\ UNCHANGED async_vars
    /\ UNCHANGED <<analyzer_vars, service_vars>>

\* Step 2 and the head of step 3.  An exception leaves the try block for the
\* handler; otherwise the locals of step 3 are initialised and the isinstance
\* test chooses between the for loop and the error log.
Analyze ==
    /\ pc = "analyze"
    /\ \E outcome \in AnalysisOutcomes :
          IF outcome = "raise"
          THEN /\ pc' = "error"
               /\ UNCHANGED <<is_list, n_pois, current_active_indices,
                              found_indices, alert_messages_to_send>>
          ELSE /\ alert_messages_to_send' = <<>>
               /\ current_active_indices' = Keys(active_pois_dict)
               /\ found_indices' = {}
               /\ is_list' = (outcome = "list")
               /\ n_pois' = 0
               /\ pc' = IF outcome = "list" THEN "diff" ELSE "arrival"
    /\ df' = 0
    /\ UNCHANGED <<data_store, active_pois_dict, live_price_data, arrival_log, announced, quote_repeated>>
    /\ UNCHANGED async_vars
    /\ UNCHANGED <<analyzer_vars, service_vars>>

\* Step 3, one iteration of `for poi in pending_pois_list`.  The list is read
\* front to back and never otherwise, so its next element is drawn here.
ProcessNextPoiFrom(candidates) ==
    /\ pc = "diff"
    /\ n_pois < MaxCands
    /\ \E poi \in candidates :
          LET r == ProcessPoi(active_pois_dict, found_indices,
                              alert_messages_to_send, current_active_indices, poi)
          IN  /\ active_pois_dict' = r.dict
              /\ found_indices' = r.found
              /\ alert_messages_to_send' = r.alerts
              /\ arrival_log' = LogReset(arrival_log,
                                    Keys(r.dict) \ Keys(active_pois_dict))
              /\ announced' = announced \cup
                    NewZonesIn(SubSeq(r.alerts, Len(alert_messages_to_send) + 1,
                                      Len(r.alerts)))
    /\ n_pois' = n_pois + 1
    /\ UNCHANGED <<pc, data_store, df, is_list, current_active_indices,
                   live_price_data, quote_repeated>>
    /\ UNCHANGED async_vars
    /\ UNCHANGED <<analyzer_vars, service_vars>>

ProcessNextPoi == ProcessNextPoiFrom(ZoneCandidates)

\* Step 3, after the loop: the POIs no longer found are popped.
RemoveNotFound ==
    /\ pc = "diff"
    /\ active_pois_dict' =
          RemoveStale(active_pois_dict, current_active_indices, found_indices)
    /\ arrival_log' = LogReset(arrival_log, current_active_indices \ found_indices)
    /\ announced' = announced \ (Keys(active_pois_dict) \ Keys(active_pois_dict'))
    /\ pc' = "arrival"
    /\ UNCHANGED <<data_store, df, is_list, n_pois, current_active_indices,
                   found_indices, alert_messages_to_send, live_price_data, quote_repeated>>
    /\ UNCHANGED async_vars
    /\ UNCHANGED <<analyzer_vars, service_vars>>

\* Step 4.  With an empty mapping no price is asked for; a missing price only
\* logs a warning.
CheckArrival ==
    /\ pc = "arrival"
    /\ IF active_pois_dict = <<>>
       THEN UNCHANGED <<active_pois_dict, alert_messages_to_send,
                        live_price_data, arrival_log, announced, quote_repeated>>
       ELSE \E q \in Quotes \cup {NoTick} :
              LET r == ArrivalCheck(active_pois_dict, alert_messages_to_send, q)
                  added == SubSeq(r.alerts, Len(alert_messages_to_send) + 1,
                                  Len(r.alerts))
              IN  /\ live_price_data' = q
                  /\ active_pois_dict' = r.dict
                  /\ alert_messages_to_send' = r.alerts
                  /\ arrival_log' =
                        IF q = NoTick THEN arrival_log
                        ELSE LogArrivals(arrival_log, active_pois_dict, q, added)
                  /\ announced' = announced
                  /\ quote_repeated' = (q = live_price_data)
    /\ pc' = "send"
    /\ UNCHANGED <<data_store, df, is_list, n_pois, current_active_indices,
                   found_indices>>
    /\ UNCHANGED async_vars
    /\ UNCHANGED <<analyzer_vars, service_vars>>

\* Step 5: one task per queued alert.
SendAlerts ==
    /\ pc = "send"
    /\ pc' = "wait"
    /\ UNCHANGED <<data_store, df, active_pois_dict, is_list, n_pois,
                   current_active_indices, found_indices, alert_messages_to_send,
                   live_price_data, arrival_log, announced, quote_repeated>>
    /\ UNCHANGED async_vars
    /\ UNCHANGED <<analyzer_vars, service_vars>>

\* Step 6: sleep until the next M15 candle.  The locals of step 3 are dead
\* until the next cycle assigns them again.
WaitNextCandle ==
    /\ pc = "wait"
    /\ pc' = "cycle_start"
    /\ is_list' = FALSE
    /\ n_pois' = 0
    /\ current_active_indices' = {}
    /\ found_indices' = {}
    /\ alert_messages_to_send' = <<>>
    /\ quote_repeated' = FALSE
    /\ UNCHANGED <<data_store, df, active_pois_dict, live_price_data, arrival_log, announced>>
    /\ UNCHANGED async_vars
    /\ UNCHANGED <<analyzer_vars, service_vars>>

\* Variant: the handler lets the exception end the coroutine.
HandleError_EndsLoop ==
    /\ pc = "error"
    /\ pc' = "stopped"
    /\ UNCHANGED <<data_store, df, active_pois_dict, is_list, n_pois,
                   current_active_indices, found_indices, alert_messages_to_send,
                   live_price_data, arrival_log, announced, quote_repeated>>
    /\ UNCHANGED async_vars
    /\ UNCHANGED <<analyzer_vars, service_vars>>

\* except Exception: error notification (at most 10 s), sleep 60 s, next pass.
HandleError ==
    /\ pc = "error"
    /\ pc' = "cycle_start"
    /\ UNCHANGED <<data_store, df, active_pois_dict, is_list, n_pois,
                   current_active_indices, found_indices, alert_messages_to_send,
                   live_price_data, arrival_log, announced, quote_repeated>>
    /\ UNCHANGED async_vars
    /\ UNCHANGED <<analyzer_vars, service_vars>>

Next ==
    \/ UpdateData
    \/ SleepRetry
    \/ Analyze
    \/ ProcessNextPoi
    \/ RemoveNotFound
    \/ CheckArrival
    \/ SendAlerts
    \/ WaitNextCandle
    \/ HandleError

Spec == Init /\ [][Next]_vars

\* The coroutine is resumed after every await: each sleep ends and each
\* step between two awaits terminates, so a cycle that can go on does.
SpecFair == Spec /\ WF_vars(Next)

\* The loop on candidates that also carry their kind ('type', which the
\* alerts read with poi.get('type')): the producers of smc_analyzer set
\* 'OB' or 'FVG'.
KindedCandidates ==
    [index : Timestamps, low : {1}, high : 1..MaxHigh, direction : Directions,
     type : {"OB", "FVG"}]

ProcessNextKindedPoi == ProcessNextPoiFrom(KindedCandidates)

NextKinds ==
    \/ UpdateData
    \/ SleepRetry
    \/ Analyze
    \/ ProcessNextKindedPoi
    \/ RemoveNotFound
    \/ CheckArrival
    \/ SendAlerts
    \/ WaitNextCandle
    \/ HandleError

SpecKinds == Init /\ [][NextKinds]_vars

\* ------------------------------------------- the event loop's coroutines
\* analysis_loop, the notification tasks and the command handlers share one
\* asyncio event loop: a coroutine runs from one await to its next one, and
\* another is scheduled only while it is suspended there.  The awaits of
\* analysis_loop are the sleeps of the two `continue` branches, the sleep
\* after each create_task, the sleep of step 6 and those of the handler.
AwaitPoints == {"sleep_60", "send_sleep", "wait", "error"}

\* Variant: another coroutine is scheduled at any statement of the loop.
LoopSuspended_Always(p) == TRUE

LoopSuspended(p) == p \in AwaitPoints

\* Step 5, one iteration of `for msg in alert_messages_to_send`:
\* asyncio.create_task(send_telegram_message_async(msg)), then the await.
SendNext ==
    /\ pc = "send"
    /\ n_sent < Len(alert_messages_to_send)
    /\ send_tasks < MaxTasks
    /\ n_sent' = n_sent + 1
    /\ send_tasks' = send_tasks + 1
    /\ pc' = "send_sleep"
    /\ UNCHANGED <<data_store, df, active_pois_dict, is_list, n_pois,
                   current_active_indices, found_indices, alert_messages_to_send,
                   live_price_data, arrival_log, announced, quote_repeated>>
    /\ UNCHANGED <<delivery_log, verpoi_reply, delivery_vars>>
    /\ UNCHANGED <<analyzer_vars, service_vars>>

\* await asyncio.sleep(0.5) returns.
SendSleepDone ==
    /\ pc = "send_sleep"
    /\ pc' = "send"
    /\ UNCHANGED <<data_store, df, active_pois_dict, is_list, n_pois,
                   current_active_indices, found_indices, alert_messages_to_send,
                   live_price_data, arrival_log, announced, quote_repeated>>
    /\ UNCHANGED async_vars
    /\ UNCHANGED <<analyzer_vars, service_vars>>

\* The queue is empty or exhausted: on to step 6.
SendDone ==
    /\ pc = "send"
    /\ n_sent = Len(alert_messages_to_send)
    /\ n_sent' = 0
    /\ pc' = "wait"
    /\ UNCHANGED <<data_store, df, active_pois_dict, is_list, n_pois,
                   current_active_indices, found_indices, alert_messages_to_send,
                   live_price_data, arrival_log, announced, quote_repeated>>
    /\ UNCHANGED <<send_tasks, delivery_log, verpoi_reply, delivery_vars>>
    /\ UNCHANGED <<analyzer_vars, service_vars>>

\* Variant: a delivery that failed withdraws the arrival flags.
TaskEnds_RollsBack ==
    /\ LoopSuspended(pc)
    /\ send_tasks > 0
    /\ send_tasks' = send_tasks - 1
    /\ \E sent \in BOOLEAN :
          /\ delivery_log' = IF sent THEN "delivered" ELSE "failed"
          /\ active_pois_dict' =
                IF sent THEN active_pois_dict
                ELSE [i \in 1..Len(active_pois_dict) |->
                        [active_pois_dict[i] EXCEPT !.arrival_alerted = FALSE]]
    /\ UNCHANGED <<pc, data_store, df, is_list, n_pois, current_active_indices,
                   found_indices, alert_messages_to_send, live_price_data,
                   arrival_log, announced, quote_repeated>>
    /\ UNCHANGED <<n_sent, verpoi_reply, delivery_vars>>
    /\ UNCHANGED <<analyzer_vars, service_vars>>

\* A notification task runs to its end: send_telegram_message_async returns
\* True or False to nobody, the task object having been dropped at creation.
TaskEnds ==
    /\ LoopSuspended(pc)
    /\ send_tasks > 0
    /\ send_tasks' = send_tasks - 1
    /\ \E sent \in BOOLEAN :
          delivery_log' = IF sent THEN "delivered" ELSE "failed"
    /\ UNCHANGED loop_vars
    /\ UNCHANGED <<n_sent, verpoi_reply, delivery_vars>>
    /\ UNCHANGED <<analyzer_vars, service_vars>>

\* verpoi_command up to its first await: it reads the mapping and builds
\* either the "no active POIs" reply or the listing.
VerPoi ==
    /\ LoopSuspended(pc)
    /\ verpoi_reply' = IF active_pois_dict = <<>> THEN "no_pois" ELSE "listing"
    /\ UNCHANGED loop_vars
    /\ UNCHANGED <<n_sent, send_tasks, delivery_log, delivery_vars>>
    /\ UNCHANGED <<analyzer_vars, service_vars>>

NextAsync ==
    \/ UpdateData
    \/ SleepRetry
    \/ Analyze
    \/ ProcessNextPoi
    \/ RemoveNotFound
    \/ CheckArrival
    \/ SendNext
    \/ SendSleepDone
    \/ SendDone
    \/ WaitNextCandle
    \/ HandleError
    \/ TaskEnds
    \/ VerPoi

\* The analysis loop together with the tasks it makes and the handler.
SpecAsync == Init /\ [][NextAsync]_vars

\* -------------------------- telegram_notifier.send_telegram_message_async
\* What one `await bot.send_message(...)` comes to: it returns, or raises
\* telegram.error.RetryAfter, telegram.error.BadRequest or something else.
SendOutcomes == {"sent", "RetryAfter", "BadRequest", "error"}

\* A task of send_telegram_message_async(msg) when asyncio.create_task has
\* made it: the message (its place in the queue), the iteration i of
\* `for i in range(retries)` and the await the coroutine is at.
NewTask(msg) == [msg |-> msg, i |-> 0, at |-> "send_message"]

\* Variant: a BadRequest is retried like any other error.
AfterSendMessageOf_BadRequestRetries(t, n, outcome) ==
    IF outcome = "sent" THEN [t EXCEPT !.at = "return_True"]
    ELSE IF outcome = "RetryAfter" THEN [t EXCEPT !.at = "sleep"]
    ELSE IF t.i < n - 1 THEN [t EXCEPT !.at = "sleep"]
    ELSE [t EXCEPT !.at = "return_False"]

\* The coroutine, called with retries = n, from the end of the send of
\* iteration i to its next await or its return.
AfterSendMessageOf(t, n, outcome) ==
    IF outcome = "sent" THEN [t EXCEPT !.at = "return_True"]
    ELSE IF outcome = "RetryAfter" THEN [t EXCEPT !.at = "sleep"]
    ELSE IF outcome = "BadRequest" THEN [t EXCEPT !.at = "return_False"]
    ELSE IF t.i < n - 1 THEN [t EXCEPT !.at = "sleep"]
    ELSE [t EXCEPT !.at = "return_False"]

\* The sleep before the next attempt is over: the next iteration, or the
\* `return False` after the loop.
AfterSleepOf(t, n) ==
    IF t.i + 1 < n THEN [t EXCEPT !.i = @ + 1, !.at = "send_message"]
    ELSE [t EXCEPT !.at = "return_False"]

\* The tasks of step 5 are made with the default retries.
AfterSendMessage(t, outcome) == AfterSendMessageOf(t, Retries, outcome)

AfterSleep(t) == AfterSleepOf(t, Retries)

Returned(t) == t.at \in {"return_True", "return_False"}

\* tasks with task k replaced by t, or without it once it has returned.
TaskStep(k, t) ==
    IF Returned(t)
    THEN SubSeq(tasks, 1, k - 1) \o SubSeq(tasks, k + 1, Len(tasks))
    ELSE [tasks EXCEPT ![k] = t]

\* Steps 1 to 4 of a first cycle as one step: the series is long enough, the
\* analysis returns a list of MaxCands POIs of different formation times,
\* they are diffed against the empty mapping and the arrival check is run.
RECURSIVE DiffAll(_, _)
DiffAll(r, pois) ==
    IF pois = <<>> THEN r
    ELSE DiffAll(ProcessPoi(r.dict, r.found, r.alerts, {}, Head(pois)), Tail(pois))

CycleUntilSend ==
    /\ pc = "cycle_start"
    /\ data_store = 0
    /\ \E pois \in [1..MaxCands -> ZoneCandidates], q \in Quotes \cup {NoTick} :
          /\ \A m, n \in 1..MaxCands : m # n => pois[m].index # pois[n].index
          /\ \A n \in 1..MaxCands : pois[n].index # None
          /\ LET r == DiffAll([dict |-> <<>>, found |-> {}, alerts |-> <<>>], pois)
                 d == RemoveStale(r.dict, {}, r.found)
                 a == ArrivalCheck(d, r.alerts, q)
                 added == SubSeq(a.alerts, Len(r.alerts) + 1, Len(a.alerts))
             IN  /\ active_pois_dict' = a.dict
                 /\ alert_messages_to_send' = a.alerts
                 /\ found_indices' = r.found
                 /\ live_price_data' = q
                 /\ arrival_log' = IF q = NoTick THEN arrival_log
                                   ELSE LogArrivals(arrival_log, d, q, added)
                 /\ announced' = NewZonesIn(a.alerts)
                 /\ quote_repeated' = (q = live_price_data)
    /\ data_store' = STRATEGY_M15_RANGE_CANDLES
    /\ df' = 0
    /\ is_list' = TRUE
    /\ n_pois' = MaxCands
    /\ current_active_indices' = {}
    /\ pc' = "send"
    /\ UNCHANGED async_vars
    /\ UNCHANGED <<analyzer_vars, service_vars>>

\* Step 5, one iteration: the task is made and starts with its first send
\* at the await that follows.
CreateSendTask ==
    /\ pc = "send"
    /\ n_sent < Len(alert_messages_to_send)
    /\ send_tasks < MaxTasks
    /\ n_sent' = n_sent + 1
    /\ send_tasks' = send_tasks + 1
    /\ tasks' = Append(tasks, NewTask(n_sent + 1))
    /\ pc' = "send_sleep"
    /\ UNCHANGED <<data_store, df, active_pois_dict, is_list, n_pois,
                   current_active_indices, found_indices, alert_messages_to_send,
                   live_price_data, arrival_log, announced, quote_repeated>>
    /\ UNCHANGED <<delivery_log, verpoi_reply, delivered>>
    /\ UNCHANGED <<analyzer_vars, service_vars>>

\* The send_message of a task ends, while analysis_loop is at an await.
SendMessageEnds ==
    /\ LoopSuspended(pc)
    /\ \E k \in 1..Len(tasks), outcome \in SendOutcomes :
          /\ tasks[k].at = "send_message"
          /\ LET t == AfterSendMessage(tasks[k], outcome)
             IN  /\ tasks' = TaskStep(k, t)
                 /\ delivered' = IF outcome = "sent"
                                 THEN Append(delivered, tasks[k].msg) ELSE delivered
                 /\ send_tasks' = IF Returned(t) THEN send_tasks - 1 ELSE send_tasks
                 /\ delivery_log' = IF t.at = "return_True" THEN "delivered"
                                    ELSE IF t.at = "return_False" THEN "failed"
                                    ELSE delivery_log
    /\ UNCHANGED loop_vars
    /\ UNCHANGED <<n_sent, verpoi_reply>>
    /\ UNCHANGED <<analyzer_vars, service_vars>>

\* The sleep of a task that is to try again ends.
RetrySleepEnds ==
    /\ LoopSuspended(pc)
    /\ \E k \in 1..Len(tasks) :
          /\ tasks[k].at = "sleep"
          /\ LET t == AfterSleep(tasks[k])
             IN  /\ tasks' = TaskStep(k, t)
                 /\ send_tasks' = IF Returned(t) THEN send_tasks - 1 ELSE send_tasks
                 /\ delivery_log' = IF Returned(t) THEN "failed" ELSE delivery_log
    /\ UNCHANGED loop_vars
    /\ UNCHANGED <<n_sent, verpoi_reply, delivered>>
    /\ UNCHANGED <<analyzer_vars, service_vars>>

\* A first cycle, its step 5 and the tasks of it until the last has returned.
NextDelivery ==
    \/ CycleUntilSend
    \/ CreateSendTask
    \/ SendSleepDone
    \/ SendDone
    \/ SendMessageEnds
    \/ RetrySleepEnds

SpecDelivery == Init /\ [][NextDelivery]_vars

\* ------------------------------------------------ smc_analyzer: the frame
\* A row of the OHLC frame, as far as the functions below read it.
Candles == {c \in [High : 1..MaxPrice, Low : 1..MaxPrice] : c.Low <= c.High}

\* df.iloc[i], positions counted from 0.
Iloc(df_, i) == df_[i + 1]

\* df.iloc[start:]['Low'].min() and ['High'].max() of a non-empty slice.
RECURSIVE MinLowFrom(_, _)
MinLowFrom(df_, start) ==
    IF start = Len(df_) - 1 THEN Iloc(df_, start).Low
    ELSE LET rest == MinLowFrom(df_, start + 1)
         IN  IF Iloc(df_, start).Low < rest THEN Iloc(df_, start).Low ELSE rest

RECURSIVE MaxHighFrom(_, _)
MaxHighFrom(df_, start) ==
    IF start = Len(df_) - 1 THEN Iloc(df_, start).High
    ELSE LET rest == MaxHighFrom(df_, start + 1)
         IN  IF Iloc(df_, start).High > rest THEN Iloc(df_, start).High ELSE rest

\* ------------------------------------------ smc_analyzer._check_mitigation
\* The zones given to the check: an order block or a gap, with its direction
\* and its levels; level_50 = (high + low) / 2 as find_m15_poi_in_range sets
\* it.  A zone may lack its levels (poi_candidate.get(...) is None).
PoiCandidates ==
    [type : {"OB", "FVG"}, direction : Directions \cup {None},
     low : {1}, high : {MaxPrice}, level_50 : {(1 + MaxPrice) \div 2}]
    \cup [type : {"OB", "FVG"}, direction : Directions,
          low : {NoPrice}, high : {NoPrice}, level_50 : {NoPrice}]

\* Variant: only the newest candle is looked at.
CheckMitigation_LastCandleOnly(poi, df_, iloc) ==
    IF poi.low = NoPrice \/ poi.high = NoPrice \/ poi.level_50 = NoPrice THEN TRUE
    ELSE LET start == IF poi.type # "FVG" THEN iloc + 1 ELSE iloc
         IN  IF start >= Len(df_) THEN FALSE
             ELSE IF poi.direction = "Bearish"
                  THEN Iloc(df_, Len(df_) - 1).Low <= poi.level_50
             ELSE IF poi.direction = "Bullish"
                  THEN Iloc(df_, Len(df_) - 1).High >= poi.level_50
             ELSE FALSE

\* _check_mitigation(poi_candidate, df, poi_iloc)
CheckMitigation(poi, df_, iloc) ==
    IF poi.low = NoPrice \/ poi.high = NoPrice \/ poi.level_50 = NoPrice THEN TRUE
    ELSE LET mitigation_scan_start_iloc == IF poi.type # "FVG" THEN iloc + 1 ELSE iloc
         IN  IF mitigation_scan_start_iloc >= Len(df_) THEN FALSE
             ELSE IF poi.direction = "Bearish"
                  THEN MinLowFrom(df_, mitigation_scan_start_iloc) <= poi.level_50
             ELSE IF poi.direction = "Bullish"
                  THEN MaxHighFrom(df_, mitigation_scan_start_iloc) >= poi.level_50
             ELSE FALSE

\* A zone, and the frame up to its formation candle.
InitMitigation ==
    /\ LoopInit
    /\ AsyncInit
    /\ candles \in {<<c>> : c \in Candles}
    /\ poi_candidate \in PoiCandidates
    /\ poi_iloc = 0
    /\ mitigated = FALSE
    /\ mit_checked = FALSE
    /\ SwingIdle
    /\ fvgs = <<>>
    /\ BosIdle
    /\ SetupIdle
    /\ ServiceIdle

\* The check is run on the present frame.
RunCheckMitigation ==
    /\ ~mit_checked
    /\ mitigated' = CheckMitigation(poi_candidate, candles, poi_iloc)
    /\ mit_checked' = TRUE
    /\ UNCHANGED <<candles, poi_candidate, poi_iloc>>
    /\ UNCHANGED <<loop_vars, async_vars, service_vars, setup_vars, swing_vars, fvgs, bos_vars>>

\* A candle closes and is appended to the frame.
MitigationNewCandle ==
    /\ mit_checked
    /\ Len(candles) < poi_iloc + 1 + MaxAfter
    /\ \E c \in Candles : candles' = Append(candles, c)
    /\ mit_checked' = FALSE
    /\ UNCHANGED <<poi_candidate, poi_iloc, mitigated>>
    /\ UNCHANGED <<loop_vars, async_vars, service_vars, setup_vars, swing_vars, fvgs, bos_vars>>

NextMitigation == RunCheckMitigation \/ MitigationNewCandle

SpecMitigation == InitMitigation /\ [][NextMitigation]_vars

\* ------------------------------------------ smc_analyzer.find_swing_points
\* np.nan in a price column.
NaN == 0 - 1

\* The windows tried; analyze_m15_setup passes lookback=3.
Lookbacks == 1..3

\* Variant: a high equal to a neighbour's still counts.
IsSwingHigh_NonStrict(df_, i, k) ==
    \A j \in 1..k :
        ~(Iloc(df_, i).High < Iloc(df_, i - j).High
          \/ Iloc(df_, i).High < Iloc(df_, i + j).High)

\* is_sh after the loop over j: no neighbour within the window has a high
\* at or above h_i.
IsSwingHigh(df_, i, k) ==
    \A j \in 1..k :
        ~(Iloc(df_, i).High <= Iloc(df_, i - j).High
          \/ Iloc(df_, i).High <= Iloc(df_, i + j).High)

\* Variant: only the candles that follow are compared.
IsSwingLow_LaterOnly(df_, i, k) ==
    \A j \in 1..k : ~(Iloc(df_, i).Low >= Iloc(df_, i + j).Low)

\* is_sl after the loop over j.
IsSwingLow(df_, i, k) ==
    \A j \in 1..k :
        ~(Iloc(df_, i).Low >= Iloc(df_, i - j).Low
          \/ Iloc(df_, i).Low >= Iloc(df_, i + j).Low)

\* find_swing_points(df, lookback): the frame with the two columns added; a
\* frame shorter than 2 * lookback + 1 gets NaN throughout, an empty frame
\* comes back empty.
FindSwingPoints(df_, k) ==
    LET n == Len(df_)
        InRange(i) == n >= 2 * k + 1 /\ i >= k /\ i < n - k
    IN  [p \in 1..n |->
            [High      |-> df_[p].High,
             Low       |-> df_[p].Low,
             SwingHigh |-> IF InRange(p - 1) /\ IsSwingHigh(df_, p - 1, k)
                           THEN df_[p].High ELSE NaN,
             SwingLow  |-> IF InRange(p - 1) /\ IsSwingLow(df_, p - 1, k)
                           THEN df_[p].Low ELSE NaN]]

InitSwings ==
    /\ LoopInit
    /\ AsyncInit
    /\ MitIdle
    /\ candles = <<>>
    /\ lookback \in Lookbacks
    /\ df_with_swings = <<>>
    /\ fvgs = <<>>
    /\ BosIdle
    /\ SetupIdle
    /\ ServiceIdle

\* A candle is appended to the frame and the swings are looked for again.
FindSwingsOnNewCandle ==
    /\ Len(candles) < MaxLen
    /\ \E c \in Candles : candles' = Append(candles, c)
    /\ df_with_swings' = FindSwingPoints(candles', lookback)
    /\ UNCHANGED lookback
    /\ UNCHANGED <<loop_vars, async_vars, service_vars, setup_vars, mit_vars, fvgs, bos_vars>>

NextSwings == FindSwingsOnNewCandle

SpecSwings == InitSwings /\ [][NextSwings]_vars

\* ------------------------------------------------- smc_analyzer.find_fvg
\* The dict appended for a gap.  'index' is df.index[i-1], the label of the
\* middle candle, here its position; 'mid' = (top + bottom) / 2 is a float
\* and is held in halves, as the number 2 * mid.
Fvg(i, top, bottom, type) ==
    [index |-> i - 1, top |-> top, bottom |-> bottom, type |-> type,
     mid |-> top + bottom]

\* Variant: touching candles count as a gap.
FvgAt_NonStrict(df_, i) ==
    LET low_i == Iloc(df_, i).Low
        high_i_minus_2 == Iloc(df_, i - 2).High
        high_i == Iloc(df_, i).High
        low_i_minus_2 == Iloc(df_, i - 2).Low
    IN  IF low_i >= high_i_minus_2
        THEN <<Fvg(i, low_i, high_i_minus_2, "Bullish")>>
        ELSE IF high_i <= low_i_minus_2
        THEN <<Fvg(i, low_i_minus_2, high_i, "Bearish")>>
        ELSE <<>>

\* Body of `for i in range(2, len(df))`: what iteration i appends.
FvgAt(df_, i) ==
    LET low_i == Iloc(df_, i).Low
        high_i_minus_2 == Iloc(df_, i - 2).High
        high_i == Iloc(df_, i).High
        low_i_minus_2 == Iloc(df_, i - 2).Low
    IN  IF low_i > high_i_minus_2
        THEN <<Fvg(i, low_i, high_i_minus_2, "Bullish")>>
        ELSE IF high_i < low_i_minus_2
        THEN (IF low_i_minus_2 > high_i
              THEN <<Fvg(i, low_i_minus_2, high_i, "Bearish")>> ELSE <<>>)
        ELSE <<>>

RECURSIVE FvgsFrom(_, _)
FvgsFrom(df_, i) ==
    IF i >= Len(df_) THEN <<>> ELSE FvgAt(df_, i) \o FvgsFrom(df_, i + 1)

\* find_fvg(df)
FindFvg(df_) == IF Len(df_) < 3 THEN <<>> ELSE FvgsFrom(df_, 2)

InitFvg ==
    /\ LoopInit
    /\ AsyncInit
    /\ MitIdle
    /\ SwingIdle
    /\ BosIdle
    /\ SetupIdle
    /\ ServiceIdle
    /\ candles = <<>>
    /\ fvgs = <<>>

\* A candle is appended to the frame and the gaps are looked for again.
FindFvgOnNewCandle ==
    /\ Len(candles) < MaxLen
    /\ \E c \in Candles : candles' = Append(candles, c)
    /\ fvgs' = FindFvg(candles')
    /\ UNCHANGED <<loop_vars, async_vars, service_vars, setup_vars, mit_vars, swing_vars, bos_vars>>

NextFvg == FindFvgOnNewCandle

SpecFvg == InitFvg /\ [][NextFvg]_vars

\* ------------------------------------ smc_analyzer.find_last_bos_in_range
\* The rows of df_with_swings as the resolver reads them: the two swing
\* columns, NaN where the row is no swing.  A row marked in both columns is a
\* candle with its low below its high.  Rows are labelled by position, the
\* frame's timestamps being increasing.
SwingRows ==
    {r \in [SwingHigh : {NaN} \cup (1..MaxMark), SwingLow : {NaN} \cup (1..MaxMark)] :
        (r.SwingHigh # NaN /\ r.SwingLow # NaN) => r.SwingLow < r.SwingHigh}

\* df_with_swings['SwingHigh'].dropna(): labels and prices, in frame order.
SwingHighSeries(df_) ==
    SelectSeq([p \in 1..Len(df_) |-> [index |-> p - 1, price |-> df_[p].SwingHigh]],
              LAMBDA e : e.price # NaN)

\* df_with_swings['SwingLow'].dropna()
SwingLowSeries(df_) ==
    SelectSeq([p \in 1..Len(df_) |-> [index |-> p - 1, price |-> df_[p].SwingLow]],
              LAMBDA e : e.price # NaN)

\* series[series.index < label]
Before(series, label) == SelectSeq(series, LAMBDA e : e.index < label)

\* series[(series.index > a) & (series.index < b)] is not empty
Intervening(series, a, b) ==
    \E n \in 1..Len(series) : series[n].index > a /\ series[n].index < b

\* Variant: a higher high breaks structure with no swing low in between.
ScanUp_NoInterveningLow(highs, swing_lows, i) ==
    IF \E n \in 2..Len(highs) : highs[n].price > highs[n - 1].price
    THEN LET n == CHOOSE m \in 2..Len(highs) :
                    /\ highs[m].price > highs[m - 1].price
                    /\ \A q \in (m + 1)..Len(highs) : ~(highs[q].price > highs[q - 1].price)
         IN  [type |-> "BOS_Up", index |-> highs[n].index,
              broken_level |-> highs[n - 1].price, price |-> highs[n].price]
    ELSE NoBos

\* for i in range(len(highs_before_range_max) - 1, 0, -1): from iteration i on.
RECURSIVE ScanUp(_, _, _)
ScanUp(highs, swing_lows, i) ==
    IF i < 1 THEN NoBos
    ELSE LET last_h == highs[i + 1]
             prev_h == highs[i]
         IN  IF last_h.price > prev_h.price
                /\ Intervening(swing_lows, prev_h.index, last_h.index)
             THEN [type |-> "BOS_Up", index |-> last_h.index,
                   broken_level |-> prev_h.price, price |-> last_h.price]
             ELSE ScanUp(highs, swing_lows, i - 1)

\* for i in range(len(lows_before_range_min) - 1, 0, -1): from iteration i on.
RECURSIVE ScanDown(_, _, _)
ScanDown(lows, swing_highs, i) ==
    IF i < 1 THEN NoBos
    ELSE LET last_l == lows[i + 1]
             prev_l == lows[i]
         IN  IF last_l.price < prev_l.price
                /\ Intervening(swing_highs, prev_l.index, last_l.index)
             THEN [type |-> "BOS_Down", index |-> last_l.index,
                   broken_level |-> prev_l.price, price |-> last_l.price]
             ELSE ScanDown(lows, swing_highs, i - 1)

LastBosUp(df_, high_idx) ==
    LET swing_highs == SwingHighSeries(df_)
        highs_before_range_max == Before(swing_highs, high_idx)
    IN  IF Len(swing_highs) >= 2 /\ Len(highs_before_range_max) >= 2
        THEN ScanUp(highs_before_range_max, SwingLowSeries(df_),
                    Len(highs_before_range_max) - 1)
        ELSE NoBos

LastBosDown(df_, low_idx) ==
    LET swing_lows == SwingLowSeries(df_)
        lows_before_range_min == Before(swing_lows, low_idx)
    IN  IF Len(swing_lows) >= 2 /\ Len(lows_before_range_min) >= 2
        THEN ScanDown(lows_before_range_min, SwingHighSeries(df_),
                      Len(lows_before_range_min) - 1)
        ELSE NoBos

\* Variant: the break-up candidate is preferred whenever it exists.
FinalBos_UpFirst(up, down) == IF up # NoBos THEN up ELSE down

\* The choice between the two candidates.
FinalBos(up, down) ==
    IF up # NoBos /\ down # NoBos
    THEN (IF up.index > down.index THEN up ELSE down)
    ELSE IF up # NoBos THEN up
    ELSE IF down # NoBos THEN down
    ELSE NoBos

\* bias = 'Undetermined'; if latest_bos: 'Bullish' if BOS_Up else 'Bearish'
Bias(latest_bos) ==
    IF latest_bos # NoBos
    THEN (IF latest_bos.type = "BOS_Up" THEN "Bullish" ELSE "Bearish")
    ELSE "Undetermined"

InitBos ==
    /\ LoopInit
    /\ AsyncInit
    /\ MitIdle
    /\ candles = <<>>
    /\ lookback = 3
    /\ df_with_swings = <<>>
    /\ fvgs = <<>>
    /\ BosIdle
    /\ SetupIdle
    /\ ServiceIdle

\* The frame grows by one row until the resolver is called on it.
AppendSwingRow ==
    /\ range_high_idx = NoIdx
    /\ Len(df_with_swings) < MaxLen
    /\ \E r \in SwingRows : df_with_swings' = Append(df_with_swings, r)
    /\ UNCHANGED <<candles, lookback, fvgs>>
    /\ UNCHANGED <<loop_vars, async_vars, service_vars, setup_vars, mit_vars, bos_vars>>

\* find_last_bos_in_range(df_with_swings, high_maximo_idx, low_minimo_idx)
\* and the bias analyze_m15_setup takes from its result; the two labels are
\* labels of the frame.
FindLastBosInRange ==
    /\ range_high_idx = NoIdx
    /\ df_with_swings # <<>>
    /\ \E high_idx, low_idx \in 0..(Len(df_with_swings) - 1) :
          /\ range_high_idx' = high_idx
          /\ range_low_idx' = low_idx
          /\ last_bos_up' = LastBosUp(df_with_swings, high_idx)
          /\ last_bos_down' = LastBosDown(df_with_swings, low_idx)
    /\ final_bos' = FinalBos(last_bos_up', last_bos_down')
    /\ bias' = Bias(final_bos')
    /\ UNCHANGED <<candles, lookback, df_with_swings, fvgs>>
    /\ UNCHANGED <<loop_vars, async_vars, service_vars, setup_vars, mit_vars>>

NextBos == AppendSwingRow \/ FindLastBosInRange

SpecBos == InitBos /\ [][NextBos]_vars

\* ------------------------------------ smc_analyzer.find_m15_poi_in_range
\* A row of the M15 series with the four columns the zone finder reads.
Ohlc(o, h, l, c) == [Open |-> o, High |-> h, Low |-> l, Close |-> c]

\* The candles the series is made of, on a price scale of five ticks: a
\* rising and a falling candle of one tick in the upper and in the lower
\* half, a rising candle with a lower wick at the top of the scale, and a
\* rising candle of two ticks that reaches across the middle.
SetupCandles ==
    {Ohlc(3, 4, 3, 4), Ohlc(4, 5, 3, 5),
     Ohlc(3, 3, 2, 2), Ohlc(2, 2, 1, 1),
     Ohlc(2, 4, 2, 4)}

Biases == {"Bullish", "Bearish", "Undetermined"}

\* df.iloc[a:b], positions counted from 0, b clipped to the length.
IlocSlice(df_, a, b) == SubSeq(df_, a + 1, IF b > Len(df_) THEN Len(df_) ELSE b)

\* Variant: a candidate that only equals the earlier extreme counts as a sweep.
CheckLiquiditySweep_NonStrict(poi, df_, iloc, lb) ==
    IF iloc < lb THEN FALSE
    ELSE LET sweep_scan_start_iloc == IF iloc - lb > 0 THEN iloc - lb ELSE 0
             sweep_scan_end_iloc == iloc - 1
         IN  IF sweep_scan_start_iloc >= sweep_scan_end_iloc THEN FALSE
             ELSE LET window_before_poi ==
                          IlocSlice(df_, sweep_scan_start_iloc, sweep_scan_end_iloc + 1)
                  IN  IF poi.direction = "Bearish"
                      THEN Iloc(df_, iloc).High >= MaxHighFrom(window_before_poi, 0)
                      ELSE IF poi.direction = "Bullish"
                      THEN Iloc(df_, iloc).Low <= MinLowFrom(window_before_poi, 0)
                      ELSE FALSE

\* _check_liquidity_sweep(poi_candidate, df, poi_iloc, lookback)
CheckLiquiditySweep(poi, df_, iloc, lb) ==
    IF iloc < lb THEN FALSE
    ELSE LET sweep_scan_start_iloc == IF iloc - lb > 0 THEN iloc - lb ELSE 0
             sweep_scan_end_iloc == iloc - 1
         IN  IF sweep_scan_start_iloc >= sweep_scan_end_iloc THEN FALSE
             ELSE LET window_before_poi ==
                          IlocSlice(df_, sweep_scan_start_iloc, sweep_scan_end_iloc + 1)
                      target_high_before == MaxHighFrom(window_before_poi, 0)
                      target_low_before == MinLowFrom(window_before_poi, 0)
                      poi_formation_start_iloc ==
                          IF poi.type = "FVG"
                          THEN (IF iloc - 1 > 0 THEN iloc - 1 ELSE 0) ELSE iloc
                      poi_formation_end_iloc ==
                          IF poi.type = "FVG"
                          THEN (IF iloc + 1 < Len(df_) - 1 THEN iloc + 1 ELSE Len(df_) - 1)
                          ELSE iloc
                      poi_formation_candles ==
                          IlocSlice(df_, poi_formation_start_iloc,
                                    poi_formation_end_iloc + 1)
                  IN  IF poi.direction = "Bearish"
                      THEN MaxHighFrom(poi_formation_candles, 0) > target_high_before
                      ELSE IF poi.direction = "Bullish"
                      THEN MinLowFrom(poi_formation_candles, 0) < target_low_before
                      ELSE FALSE

\* Condition 1: a rising candle for a Bearish bias, a falling one for Bullish.
IsCorrectType(candle, b) ==
    LET is_bullish_candle == candle.Close > candle.Open
        is_bearish_candle == candle.Close < candle.Open
    IN  (b = "Bearish" /\ is_bullish_candle) \/ (b = "Bullish" /\ is_bearish_candle)

\* The search sub-range.  The levels of a trading range are held in halves,
\* as the numbers 2 * price, since eq = (high + low) / 2 is a float.
SearchZoneLow(tr_range, b) == IF b = "Bearish" THEN tr_range.eq ELSE tr_range.low

SearchZoneHigh(tr_range, b) == IF b = "Bearish" THEN tr_range.high ELSE tr_range.eq

\* Variant: the candle only has to touch the search sub-range.
IsInZone_Overlap(candle, tr_range, b) ==
    /\ b \in Directions
    /\ 2 * candle.High >= SearchZoneLow(tr_range, b)
    /\ 2 * candle.Low <= SearchZoneHigh(tr_range, b)

\* Condition 2: the candle lies in the premium/discount half.
IsInZone(candle, tr_range, b) ==
    \/ /\ b = "Bearish"
       /\ 2 * candle.Low >= SearchZoneLow(tr_range, b)
       /\ 2 * candle.High <= SearchZoneHigh(tr_range, b)
    \/ /\ b = "Bullish"
       /\ 2 * candle.High <= SearchZoneHigh(tr_range, b)
       /\ 2 * candle.Low >= SearchZoneLow(tr_range, b)

\* relevant_fvgs: the gaps whose type is the bias.
RelevantFvgs(fvgs_, b) == SelectSeq(fvgs_, LAMBDA f : f.type = b)

\* Variant: the candidate's own label is among the labels looked at.
FvgCheckIndices_FromCandidate(df_, i, fvg_search_limit) ==
    i..((IF Len(df_) < i + 1 + fvg_search_limit
         THEN Len(df_) ELSE i + 1 + fvg_search_limit) - 1)

\* df.index[fvg_scan_start_iloc:fvg_scan_end_iloc]: the labels, here the
\* positions, of the candles that follow candle i.
FvgCheckIndices(df_, i, fvg_search_limit) ==
    LET fvg_scan_start_iloc == i + 1
        fvg_scan_end_iloc ==
            IF Len(df_) < fvg_scan_start_iloc + fvg_search_limit
            THEN Len(df_) ELSE fvg_scan_start_iloc + fvg_search_limit
    IN  fvg_scan_start_iloc..(fvg_scan_end_iloc - 1)

\* Condition 3: the first relevant gap whose label is among them, or None.
FvgDetails(df_, relevant_fvgs, i) ==
    LET hits == {n \in 1..Len(relevant_fvgs) :
                    relevant_fvgs[n].index \in FvgCheckIndices(df_, i, FvgSearchLimit)}
    IN  IF hits = {} THEN NoFvg
        ELSE relevant_fvgs[CHOOSE n \in hits : \A m \in hits : n <= m]

\* Variant: the zone is the whole candle turned upside down.
MakePoi_Swapped(candle, candle_index, b, fvg_details) ==
    LET poi_high == IF b = "Bearish" THEN candle.Open ELSE candle.Low
        poi_low == IF b = "Bearish" THEN candle.High ELSE candle.Open
    IN  [type |-> "OB+FVG+Sweep", index |-> candle_index, high |-> poi_high,
         low |-> poi_low, level_50 |-> poi_high + poi_low, direction |-> b,
         fvg_details |-> fvg_details]

\* The dict of a found zone.  'level_50' = (poi_high + poi_low) / 2 is a
\* float and is held in halves, as the number 2 * level_50.
MakePoi(candle, candle_index, b, fvg_details) ==
    LET poi_high == IF b = "Bearish" THEN candle.High ELSE candle.Open
        poi_low == IF b = "Bearish" THEN candle.Open ELSE candle.Low
    IN  [type |-> "OB+FVG+Sweep", index |-> candle_index, high |-> poi_high,
         low |-> poi_low, level_50 |-> poi_high + poi_low, direction |-> b,
         fvg_details |-> fvg_details]

\* The four conditions of one iteration of the scan.
QualifiesAt(df_, tr_range, b, relevant_fvgs, i) ==
    /\ IsCorrectType(Iloc(df_, i), b)
    /\ IsInZone(Iloc(df_, i), tr_range, b)
    /\ FvgDetails(df_, relevant_fvgs, i) # NoFvg
    /\ CheckLiquiditySweep([type |-> "OB", direction |-> b], df_, i, SweepLookback)

\* Variant: the scan goes on after a hit and keeps the oldest one.
RECURSIVE ScanPoi_KeepsOldest(_, _, _, _, _, _)
ScanPoi_KeepsOldest(df_, tr_range, b, relevant_fvgs, i, end_iloc) ==
    IF i <= end_iloc \/ i < 1 THEN NoPoi
    ELSE LET older == ScanPoi_KeepsOldest(df_, tr_range, b, relevant_fvgs,
                                          i - 1, end_iloc)
         IN  IF older # NoPoi THEN older
             ELSE IF QualifiesAt(df_, tr_range, b, relevant_fvgs, i)
             THEN MakePoi(Iloc(df_, i), i, b, FvgDetails(df_, relevant_fvgs, i))
             ELSE NoPoi

\* `for i in range(start_iloc, end_iloc, -1)` from position i on: the first
\* candle that passes the four conditions ends the loop.
RECURSIVE ScanPoi(_, _, _, _, _, _)
ScanPoi(df_, tr_range, b, relevant_fvgs, i, end_iloc) ==
    IF i <= end_iloc \/ i < 1 THEN NoPoi
    ELSE IF QualifiesAt(df_, tr_range, b, relevant_fvgs, i)
    THEN MakePoi(Iloc(df_, i), i, b, FvgDetails(df_, relevant_fvgs, i))
    ELSE ScanPoi(df_, tr_range, b, relevant_fvgs, i - 1, end_iloc)

\* Variant: the scan starts at the newest candle and has no lower end.
FindM15PoiInRange_WholeSeries(df_, tr_range, b, fvgs_) ==
    IF b = "Undetermined" \/ tr_range = NoRange THEN NoPoi
    ELSE ScanPoi(df_, tr_range, b, RelevantFvgs(fvgs_, b), Len(df_) - 1, 0)

\* find_m15_poi_in_range(df, tr_range, bias, fvgs)
FindM15PoiInRange(df_, tr_range, b, fvgs_) ==
    IF b = "Undetermined" \/ tr_range = NoRange THEN NoPoi
    ELSE LET num_candles_in_df == Len(df_)
             start_iloc == num_candles_in_df - 2
             end_iloc == IF num_candles_in_df - ScanCandles - 1 > 0
                         THEN num_candles_in_df - ScanCandles - 1 ELSE 0
         IN  ScanPoi(df_, tr_range, b, RelevantFvgs(fvgs_, b), start_iloc, end_iloc)

\* ------------------------------------------ smc_analyzer.analyze_m15_setup
\* m15_df.iloc[-num_candles:]
RangeDf(df_, num_candles) == IlocSlice(df_, Len(df_) - num_candles, Len(df_))

\* tr_24h, its three levels in halves.
TrRange(range_df) ==
    LET high_maximo_price == MaxHighFrom(range_df, 0)
        low_minimo_price == MinLowFrom(range_df, 0)
    IN  [low |-> 2 * low_minimo_price, high |-> 2 * high_maximo_price,
         eq |-> high_maximo_price + low_minimo_price]

\* find_fvg(range_df): the gaps carry the labels of the rows of range_df,
\* which are rows of m15_df; a label is the position of the row in m15_df.
FindFvgInRange(df_, num_candles) ==
    LET found == FindFvg(RangeDf(df_, num_candles))
    IN  [n \in 1..Len(found) |->
            [found[n] EXCEPT !.index = @ + (Len(df_) - num_candles)]]

\* The series is empty at the start.
InitSetup ==
    /\ LoopInit
    /\ AsyncInit
    /\ candles = <<>>
    /\ MitIdle
    /\ SwingIdle
    /\ fvgs = <<>>
    /\ BosIdle
    /\ SetupIdle
    /\ ServiceIdle

\* analyze_m15_setup(m15_df, num_candles) on the series grown by candle c:
\* too short a series returns None; otherwise the range, the bias (the
\* outcome of find_last_bos_in_range on its swings, any of the three), the
\* gaps of the range and, with a determined bias, the zone.
AnalyzeM15SetupOn(c) ==
    /\ m15_df' = Append(m15_df, c)
    /\ IF Len(m15_df') < NumCandles
       THEN /\ tr_24h' = NoRange
            /\ setup_bias' = "Undetermined"
            /\ recent_fvgs' = <<>>
            /\ high_prob_poi' = NoPoi
       ELSE /\ tr_24h' = TrRange(RangeDf(m15_df', NumCandles))
            /\ setup_bias' \in Biases
            /\ recent_fvgs' = FindFvgInRange(m15_df', NumCandles)
            /\ high_prob_poi' =
                  IF setup_bias' # "Undetermined"
                  THEN FindM15PoiInRange(m15_df', tr_24h', setup_bias', recent_fvgs')
                  ELSE NoPoi

\* A candle closes and the analysis is run on the series.
AnalyzeM15Setup ==
    /\ Len(m15_df) < MaxFrame
    /\ \E c \in SetupCandles : AnalyzeM15SetupOn(c)
    /\ UNCHANGED <<loop_vars, async_vars, service_vars, candles, mit_vars, swing_vars, fvgs, bos_vars>>

NextSetup == AnalyzeM15Setup

SpecSetup == InitSetup /\ [][NextSetup]_vars

\* Longer series of fewer kinds of candle: the rising candles of the upper
\* half and the falling one at the bottom.  A series of MaxLongFrame candles
\* has candles before its scan window that the sweep check can pass.
LongSeriesCandles == {Ohlc(3, 4, 3, 4), Ohlc(4, 5, 3, 5), Ohlc(2, 2, 1, 1)}

AnalyzeLongSeries ==
    /\ Len(m15_df) < MaxLongFrame
    /\ \E c \in LongSeriesCandles : AnalyzeM15SetupOn(c)
    /\ UNCHANGED <<loop_vars, async_vars, service_vars, candles, mit_vars, swing_vars, fvgs, bos_vars>>

NextLongSetup == AnalyzeLongSeries

SpecLongSetup == InitSetup /\ [][NextLongSetup]_vars

\* ------------------------------------- the zone finder feeding the tracker
\* The list of pending POIs of a scan: the zone the finder returned, if any.
PendingPoisList(poi) == IF poi.type # None THEN <<poi>> ELSE <<>>

\* poi['arrival_alerted'] = False; the dict stored is the candidate itself.
TrackedPoi(poi) ==
    [f \in DOMAIN poi \cup {"arrival_alerted"} |->
        IF f = "arrival_alerted" THEN FALSE ELSE poi[f]]

\* Step 3 of a cycle on a list of at most one POI.
DiffOnList(d, pending_pois_list) ==
    LET current == Keys(d)
        found == {pending_pois_list[n].index : n \in 1..Len(pending_pois_list)}
        added == IF pending_pois_list # <<>> /\ pending_pois_list[1].index \notin current
                 THEN SetItem(d, pending_pois_list[1].index,
                              TrackedPoi(pending_pois_list[1]))
                 ELSE d
    IN  RemoveStale(added, current, found)

\* A candle closes, the series is analysed and the mapping is brought up to
\* date with the zone found (steps 1 to 3 of a cycle; step 4 writes nothing
\* but arrival_alerted).
ScanAndTrack ==
    /\ Len(m15_df) < MaxFrame
    /\ \E c \in SetupCandles : AnalyzeM15SetupOn(c)
    /\ active_pois_dict' = DiffOnList(active_pois_dict, PendingPoisList(high_prob_poi'))
    /\ UNCHANGED <<pc, data_store, df, is_list, n_pois, current_active_indices,
                   found_indices, alert_messages_to_send, live_price_data,
                   arrival_log, announced, quote_repeated>>
    /\ UNCHANGED <<async_vars, service_vars, candles, mit_vars, swing_vars, fvgs, bos_vars>>

NextTrack == ScanAndTrack

SpecTrack == InitSetup /\ [][NextTrack]_vars

\* ------------------------------------------------ mt5_connector.connect_mt5
\* The arguments a retrying function is called with; range(retries) is empty
\* for retries <= 0.
RetriesArgs == (0 - 1)..MaxRetries

DelayArgs == 0..MaxDelay

\* One pass of the try block: mt5.initialize returned a true value and the
\* logging after it went through, it returned a false value, or something in
\* the block raised.
InitializeOutcomes == {"initialized", "not_initialized", "exception"}

\* `for i in range(retries)` at i: the body, or the statement after the loop.
LoopHead(k, n) ==
    IF k < n THEN [i |-> k, at |-> "attempt"] ELSE [i |-> k, at |-> "return_False"]

\* Variant: the call sleeps after every failed attempt.
AfterInitialize_AlwaysSleeps(c, n, outcome) ==
    IF outcome = "initialized" THEN [c EXCEPT !.at = "return_True"]
    ELSE [c EXCEPT !.at = "sleep"]

\* connect_mt5 from the end of attempt i to its sleep or its return; the else
\* branch and the except branch do the same.
AfterInitialize(c, n, outcome) ==
    IF outcome = "initialized" THEN [c EXCEPT !.at = "return_True"]
    ELSE IF c.i < n - 1 THEN [c EXCEPT !.at = "sleep"]
    ELSE [c EXCEPT !.at = "return_False"]

\* The value returned at a return statement, as a one-element sequence;
\* the empty sequence while the call has not returned.
ReturnValue(c) ==
    IF c.at = "return_True" THEN <<TRUE>>
    ELSE IF c.at = "return_False" THEN <<FALSE>>
    ELSE <<>>

\* connect_mt5(retries, delay) is called.
ConnectMt5 ==
    /\ call = NoCall
    /\ \E n \in RetriesArgs, d \in DelayArgs :
          /\ retries' = n
          /\ delay' = d
          /\ call' = LoopHead(0, n)
          /\ result' = ReturnValue(LoopHead(0, n))
    /\ UNCHANGED <<outcomes, sleeps, bot_ready, chat_id_set>>
    /\ UNCHANGED <<loop_vars, async_vars, analyzer_vars, dm_vars, timer_vars>>

\* The try block of iteration i ends.
InitializeEnds ==
    /\ call.at = "attempt"
    /\ \E outcome \in InitializeOutcomes :
          LET c == AfterInitialize(call, retries, outcome)
          IN  /\ call' = c
              /\ outcomes' = Append(outcomes, outcome)
              /\ sleeps' = IF c.at = "sleep"
                           THEN Append(sleeps, [after |-> call.i, seconds |-> delay])
                           ELSE sleeps
              /\ result' = ReturnValue(c)
    /\ UNCHANGED <<retries, delay, bot_ready, chat_id_set>>
    /\ UNCHANGED <<loop_vars, async_vars, analyzer_vars, dm_vars, timer_vars>>

\* time.sleep(delay) is over: the next iteration.
ConnectSleepEnds ==
    /\ call.at = "sleep"
    /\ call' = LoopHead(call.i + 1, retries)
    /\ result' = ReturnValue(call')
    /\ UNCHANGED <<retries, delay, outcomes, sleeps, bot_ready, chat_id_set>>
    /\ UNCHANGED <<loop_vars, async_vars, analyzer_vars, dm_vars, timer_vars>>

NextConnect == ConnectMt5 \/ InitializeEnds \/ ConnectSleepEnds

SpecConnect == Init /\ [][NextConnect]_vars

\* The blocking calls of connect_mt5 return: no step of it waits for ever.
SpecConnectFair == SpecConnect /\ WF_vars(NextConnect)

\* ------------------- telegram_notifier.send_telegram_message_async, one call
\* Seconds a flood-control reply asks to wait (e.retry_after).
RetryAfterArgs == 0..MaxDelay

\* The two guards before the loop, then `for i in range(retries)` at 0.
SendEntry(b, c, n) ==
    IF ~b \/ ~c \/ n <= 0 THEN [i |-> 0, at |-> "return_False"]
    ELSE [i |-> 0, at |-> "send_message"]

\* send_telegram_message_async(message, retries, delay) is called.
SendTelegramMessage ==
    /\ call = NoCall
    /\ \E n \in RetriesArgs, d \in DelayArgs, b \in BOOLEAN, c \in BOOLEAN :
          /\ retries' = n
          /\ delay' = d
          /\ bot_ready' = b
          /\ chat_id_set' = c
          /\ call' = SendEntry(b, c, n)
          /\ result' = ReturnValue(SendEntry(b, c, n))
    /\ UNCHANGED <<outcomes, sleeps>>
    /\ UNCHANGED <<loop_vars, async_vars, analyzer_vars, dm_vars, timer_vars>>

\* `await bot.send_message(...)` of iteration i ends.
SendAttemptEnds ==
    /\ call.at = "send_message"
    /\ \E outcome \in SendOutcomes, retry_after \in RetryAfterArgs :
          LET c == AfterSendMessageOf(call, retries, outcome)
          IN  /\ call' = c
              /\ outcomes' = Append(outcomes, outcome)
              /\ sleeps' =
                    IF c.at # "sleep" THEN sleeps
                    ELSE Append(sleeps,
                           [after |-> call.i,
                            seconds |-> IF outcome = "RetryAfter"
                                        THEN retry_after + 1 ELSE delay])
              /\ result' = ReturnValue(c)
    /\ UNCHANGED <<retries, delay, bot_ready, chat_id_set>>
    /\ UNCHANGED <<loop_vars, async_vars, analyzer_vars, dm_vars, timer_vars>>

\* `await asyncio.sleep(...)` of the call is over.
SendSleepEnds ==
    /\ call.at = "sleep"
    /\ call' = AfterSleepOf(call, retries)
    /\ result' = ReturnValue(call')
    /\ UNCHANGED <<retries, delay, outcomes, sleeps, bot_ready, chat_id_set>>
    /\ UNCHANGED <<loop_vars, async_vars, analyzer_vars, dm_vars, timer_vars>>

NextSend == SendTelegramMessage \/ SendAttemptEnds \/ SendSleepEnds

SpecSend == Init /\ [][NextSend]_vars

\* -------------------------------------------- data_manager.update_data
\* The timeframes update_data is called with: the three of the store and one
\* it has no lookback for.
TimeframeArgs == Timeframes \cup {"M1"}

\* _get_lookback_for_timeframe
GetLookbackForTimeframe(timeframe) ==
    IF timeframe = "H1" THEN LOOKBACK_H1
    ELSE IF timeframe = "M15" THEN LOOKBACK_M15
    ELSE IF timeframe = "M5" THEN LOOKBACK_M5
    ELSE 0

\* mt5.terminal_info(): None, a terminal off the broker, a connected one.
TerminalStates == {"no_terminal_info", "not_connected", "connected"}

\* mt5.copy_rates_from_pos: None, an exception in it or in building the
\* frame, or an array of as many rows as the terminal has.
RatesOutcomes ==
    [kind : {"rates_None", "raise"}, rows : {0}]
      \cup [kind : {"rates"}, rows : 0..MaxRows]

\* A frame: its number of rows and the time of its last candle, which is
\* the time of the request.
Frame(n, t) == [rows |-> n, last |-> t]

\* mt5_connector.get_ohlc_data(symbol, timeframe, count): None (NoFrame) or
\* the frame of the rows received.
GetOhlcData(count, terminal_info, r, t) ==
    IF count <= 0 THEN NoFrame
    ELSE IF terminal_info # "connected" THEN NoFrame
    ELSE IF r.kind # "rates" THEN NoFrame
    ELSE IF r.rows = 0 THEN NoFrame
    ELSE Frame(IF r.rows < count THEN r.rows ELSE count, t)

\* df is not None and not df.empty
Usable(frame) == frame # NoFrame /\ frame.rows # 0

\* Variant: the store takes whatever the provider returned.
StoreAfter_Overwrites(store, timeframe, frame) ==
    IF timeframe \in DOMAIN store THEN [store EXCEPT ![timeframe] = frame] ELSE store

\* data_store after update_data got `frame` for `timeframe`.
StoreAfter(store, timeframe, frame) ==
    IF Usable(frame) THEN [store EXCEPT ![timeframe] = frame] ELSE store

\* update_data(timeframe), with time.time() read at the assignment.
UpdateTimeframe ==
    /\ \E timeframe \in TimeframeArgs, ti \in TerminalStates, r \in RatesOutcomes,
          t \in {clock, clock + 1} :
          /\ t <= MaxClock
          /\ update_arg' = timeframe
          /\ clock' = t
          /\ LET lookback_ == GetLookbackForTimeframe(timeframe)
                 asked == lookback_ > 0
                 frame == IF asked THEN GetOhlcData(lookback_, ti, r, t) ELSE NoFrame
             IN  /\ terminal' = IF asked THEN ti ELSE None
                 /\ rates' = IF asked /\ ti = "connected" THEN r ELSE NoRates
                 /\ tf_data_store' = IF asked
                                     THEN StoreAfter(tf_data_store, timeframe, frame)
                                     ELSE tf_data_store
                 /\ last_update_time' =
                       IF asked /\ Usable(frame)
                       THEN [last_update_time EXCEPT ![timeframe] = t]
                       ELSE last_update_time
                 /\ update_result' = (asked /\ Usable(frame))
    /\ UNCHANGED <<loop_vars, async_vars, analyzer_vars, call_vars, timer_vars>>

NextUpdate == UpdateTimeframe

SpecUpdate == Init /\ [][NextUpdate]_vars

\* --------------------------------- main.get_seconds_until_next_m15_candle
\* datetime.now(timezone.utc): the day (counted on, as date + timedelta
\* counts), the time of day, and the microsecond, here 0 or half a second.
Datetimes ==
    [day : 1..MaxDay, hour : 0..23, minute : 0..59, second : {0, 1, 30, 59},
     microsecond : {0, 500000}]

\* (a - epoch).total_seconds(), in milliseconds.
TotalMs(t) ==
    (((t.day * 24 + t.hour) * 60 + t.minute) * 60 + t.second) * 1000
       + t.microsecond \div 1000

\* The datetime of a number of milliseconds: the inverse of TotalMs.
FromMs(ms) ==
    [day |-> ms \div 86400000,
     hour |-> (ms \div 3600000) % 24,
     minute |-> (ms \div 60000) % 60,
     second |-> (ms \div 1000) % 60,
     microsecond |-> (ms % 1000) * 1000]

\* Variant: the seconds of now_utc are kept in the target.
NextCandleTime_KeepsSeconds(now) ==
    LET next_minute == (now.minute \div 15 + 1) * 15
    IN  IF next_minute >= 60
        THEN IF now.hour + 1 >= 24
             THEN [day |-> now.day + 1, hour |-> 0, minute |-> 0, second |-> 0,
                   microsecond |-> 0]
             ELSE [now EXCEPT !.hour = now.hour + 1, !.minute = 0]
        ELSE [now EXCEPT !.minute = next_minute]

\* next_candle_time as the if/else on next_minute assigns it.
NextCandleTime(now) ==
    LET next_minute == (now.minute \div 15 + 1) * 15
    IN  IF next_minute >= 60
        THEN IF now.hour + 1 >= 24
             THEN [day |-> now.day + 1, hour |-> 0, minute |-> 0, second |-> 0,
                   microsecond |-> 0]
             ELSE [now EXCEPT !.hour = now.hour + 1, !.minute = 0, !.second = 0,
                              !.microsecond = 0]
        ELSE [now EXCEPT !.minute = next_minute, !.second = 0, !.microsecond = 0]

\* The branch for a target in the past: now + timedelta(minutes), then
\* second and microsecond set to 0.
Recalculated(now) ==
    LET minutes_to_add == 15 - (now.minute % 15)
        later == FromMs(TotalMs(now) + minutes_to_add * 60000)
    IN  [later EXCEPT !.second = 0, !.microsecond = 0]

\* The value returned, in milliseconds: max(1.0, wait_seconds + 2.0).
WaitMs(now) ==
    LET first == TotalMs(NextCandleTime(now)) - TotalMs(now)
        wait == IF first < 0 THEN TotalMs(Recalculated(now)) - TotalMs(now)
                ELSE first
    IN  IF wait + 2000 > 1000 THEN wait + 2000 ELSE 1000

\* One call, the first; wait_seconds holds the result in milliseconds.
GetSecondsUntilNextM15Candle ==
    /\ wait_seconds = 0
    /\ \E now \in Datetimes :
          /\ now_utc' = now
          /\ wait_seconds' = WaitMs(now)
    /\ UNCHANGED <<loop_vars, async_vars, analyzer_vars, call_vars, dm_vars>>

NextTimer == GetSecondsUntilNextM15Candle

SpecTimer == Init /\ [][NextTimer]_vars

\* ------------------------------------------------------------------ claims
\* The alerts step 4 appended in the step under consideration.
Appended == SubSeq(alert_messages_to_send', Len(alert_messages_to_send) + 1,
                   Len(alert_messages_to_send'))

HasAlert(e) ==
    \E i \in 1..Len(alert_messages_to_send) : alert_messages_to_send[i] = e

CountAlert(e) ==
    Cardinality({i \in 1..Len(alert_messages_to_send) : alert_messages_to_send[i] = e})

\* C1: in the arrival check a ZoneArrived alert is queued for a tracked zone
\* exactly when a price was obtained, the price of the zone's side lies in
\* [low, high] (both ends included) and arrival_alerted was false before; the
\* flag is true after the check whenever the price is contained, and a zone
\* already alerted with the price still inside queues nothing.
C1_ArrivalAlertIff ==
    [][ (pc = "arrival" /\ pc' = "send") =>
          \A i \in 1..Len(active_pois_dict) :
            LET poi == active_pois_dict[i]
                contained == /\ live_price_data' # NoTick
                             /\ Inside(poi, live_price_data')
            IN  /\ Emitted(Appended, poi.index)
                     <=> (contained /\ ~poi.arrival_alerted)
                /\ contained => active_pois_dict'[i].arrival_alerted
                /\ (contained /\ poi.arrival_alerted)
                     => ~Emitted(Appended, poi.index)
      ]_vars

\* C1 witness: after an arrival check one zone has just been alerted and
\* another, alerted in an earlier cycle, holds the price and got no alert.
C1_Witness ==
    /\ pc = "send"
    /\ live_price_data # NoTick
    /\ \E k1, k2 \in Keys(active_pois_dict) :
          /\ k1 # k2
          /\ HasAlert(ZoneArrived(k1))
          /\ Get(active_pois_dict, k1).arrival_alerted
          /\ Inside(Get(active_pois_dict, k2), live_price_data)
          /\ Get(active_pois_dict, k2).arrival_alerted
          /\ ~HasAlert(ZoneArrived(k2))
          /\ ~HasAlert(NewZone(k2))

\* C2: for a zone that stays tracked, the arrival checks never show two
\* ZoneArrived alerts without a check in between that found the price outside
\* the zone, never an alert with the price outside, and never a missed alert on
\* entering an armed zone; arrival_alerted is true exactly while the last
\* observation is an alert, so leaving the zone resets it without an alert.
C2_ArrivalToggling ==
    \A k \in Timestamps :
      /\ arrival_log[k] # "bad"
      /\ k \in Keys(active_pois_dict) =>
            (Get(active_pois_dict, k).arrival_alerted
               <=> arrival_log[k] \in {"arrived", "rearrived"})
      /\ k \notin Keys(active_pois_dict) => arrival_log[k] = "pending"

\* C2 witness: a zone alerted, then seen outside, has just been alerted again.
C2_Witness ==
    /\ pc = "send"
    /\ \E k \in Keys(active_pois_dict) :
          /\ arrival_log[k] = "rearrived"
          /\ HasAlert(ZoneArrived(k))
          /\ Get(active_pois_dict, k).arrival_alerted

\* C3: in the diff step a candidate whose index was not tracked when the step
\* began is in the mapping with arrival_alerted = false and has a NewZone
\* alert; a candidate whose index was tracked has none.
C3_DiffNewZone ==
    \A k \in Timestamps :
      /\ HasAlert(NewZone(k)) <=> k \in found_indices \ current_active_indices
      /\ k \in found_indices \ current_active_indices =>
            /\ k \in Keys(active_pois_dict)
            /\ pc \in {"diff", "arrival"} =>
                  ~Get(active_pois_dict, k).arrival_alerted

\* C3 witness: the diff has met one untracked and one tracked candidate.
C3_Witness ==
    /\ pc = "arrival"
    /\ \E k1, k2 \in Timestamps :
          /\ k1 \in found_indices \ current_active_indices
          /\ HasAlert(NewZone(k1))
          /\ k2 \in found_indices \cap current_active_indices
          /\ ~HasAlert(NewZone(k2))

\* C4: a tracked zone whose index is absent from the candidate list is popped
\* by the diff step, which queues nothing for it; the arrival check queues
\* alerts only for indices in the mapping, so none for a zone that is absent.
C4_RemovalSilent ==
    /\ [](pc \in {"send", "wait"} =>
            \A k \in Timestamps :
              HasAlert(ZoneArrived(k)) => k \in Keys(active_pois_dict))
    /\ [][ /\ (pc = "diff" /\ pc' = "arrival") =>
               /\ \A k \in current_active_indices \ found_indices :
                     k \in Keys(active_pois_dict)
                       /\ k \notin Keys(active_pois_dict')
               /\ alert_messages_to_send' = alert_messages_to_send
           /\ (pc = "arrival" /\ pc' = "send") =>
               \A k \in Timestamps :
                 Emitted(Appended, k) => k \in Keys(active_pois_dict)
         ]_vars

\* C4 witness: a zone tracked before the cycle is gone from the mapping and
\* the arrival check has run with a price on the zones that remain.
C4_Witness ==
    /\ pc = "send"
    /\ live_price_data # NoTick
    /\ active_pois_dict # <<>>
    /\ \E k \in current_active_indices \ found_indices :
          /\ k \notin Keys(active_pois_dict)
          /\ ~HasAlert(ZoneArrived(k))
          /\ ~HasAlert(NewZone(k))

\* C5: an update whose candidate indices are the tracked ones (the candidate
\* set of the previous update again) and whose quote is the one the previous
\* arrival check got, or is missing, queues no alert and leaves the mapping
\* as it was.
C5_Idempotent ==
    [][ /\ (pc = "diff" /\ found_indices' \subseteq current_active_indices
              /\ (pc' = "arrival" => current_active_indices \subseteq found_indices))
           => /\ active_pois_dict' = active_pois_dict
              /\ alert_messages_to_send' = alert_messages_to_send
        /\ (pc = "arrival" /\ pc' = "send" /\ is_list
              /\ found_indices = current_active_indices
              /\ (live_price_data' = live_price_data \/ live_price_data' = NoTick))
           => /\ active_pois_dict' = active_pois_dict
              /\ alert_messages_to_send' = <<>>
      ]_vars

\* C5 witness: the second of two such updates has run with the price of the
\* first inside an alerted zone and a zone outside it, and queued nothing.
C5_Witness ==
    /\ pc = "send"
    /\ is_list
    /\ found_indices = current_active_indices
    /\ quote_repeated
    /\ live_price_data # NoTick
    /\ alert_messages_to_send = <<>>
    /\ \E k1, k2 \in Keys(active_pois_dict) :
          /\ Inside(Get(active_pois_dict, k1), live_price_data)
          /\ Get(active_pois_dict, k1).arrival_alerted
          /\ ~Inside(Get(active_pois_dict, k2), live_price_data)

\* C6: the arrival check decides a Bullish zone by the ask and a Bearish zone
\* by the bid: the flag after the check and the alert are functions of that
\* side alone, whatever the other side of the quote is.
C6_QuoteSide ==
    [][ (pc = "arrival" /\ pc' = "send" /\ active_pois_dict # <<>>
          /\ live_price_data' # NoTick) =>
          \A i \in 1..Len(active_pois_dict) :
            LET poi  == active_pois_dict[i]
                side == IF poi.direction = "Bullish" THEN "ask" ELSE "bid"
                p    == live_price_data'[side]
                hit  == poi.low <= p /\ p <= poi.high
            IN  /\ poi.direction \in {"Bullish", "Bearish"}
                /\ active_pois_dict'[i].arrival_alerted = hit
                /\ Emitted(Appended, poi.index) <=> (hit /\ ~poi.arrival_alerted)
                /\ \A q \in Quotes :
                      q[side] = p =>
                        /\ ArrivalCheck(active_pois_dict, <<>>, q).dict[i]
                             = active_pois_dict'[i]
                        /\ Emitted(ArrivalCheck(active_pois_dict, <<>>, q).alerts,
                                    poi.index)
                             <=> Emitted(Appended, poi.index)
      ]_vars

\* C6 witness: with bid inside and ask above both zones, the Bearish zone has
\* been alerted and the Bullish zone of the same bounds has not.
C6_Witness ==
    /\ pc = "send"
    /\ live_price_data # NoTick
    /\ \E k1, k2 \in Keys(active_pois_dict) :
          LET z1 == Get(active_pois_dict, k1)
              z2 == Get(active_pois_dict, k2)
          IN  /\ z1.direction = "Bearish" /\ z2.direction = "Bullish"
              /\ z1.low = z2.low /\ z1.high = z2.high
              /\ z1.low <= live_price_data.bid /\ live_price_data.bid <= z1.high
              /\ live_price_data.ask > z1.high
              /\ HasAlert(ZoneArrived(k1)) /\ z1.arrival_alerted
              /\ ~HasAlert(ZoneArrived(k2)) /\ ~z2.arrival_alerted

\* C7: the alerts queued in one cycle list every NewZone alert before every
\* ZoneArrived alert; the queue only grows at its end within a cycle, and the
\* NewZone alert of a candidate is appended when the loop reaches it.
C7_AlertOrder ==
    /\ [](\A i, j \in 1..Len(alert_messages_to_send) :
            (i < j /\ alert_messages_to_send[j].type = "NEW_POI_M15")
              => alert_messages_to_send[i].type = "NEW_POI_M15")
    /\ [][ /\ \/ alert_messages_to_send' = <<>>
              \/ /\ Len(alert_messages_to_send') >= Len(alert_messages_to_send)
                 /\ SubSeq(alert_messages_to_send', 1, Len(alert_messages_to_send))
                      = alert_messages_to_send
           /\ (pc = "diff" /\ pc' = "diff") =>
               \A k \in (found_indices' \ found_indices) \ current_active_indices :
                 alert_messages_to_send'
                   = Append(alert_messages_to_send, NewZone(k))
         ]_vars

\* C7 witness: two NewZone alerts, of different zones, then a ZoneArrived.
C7_Witness ==
    /\ pc = "send"
    /\ Len(alert_messages_to_send) >= 3
    /\ alert_messages_to_send[1].type = "NEW_POI_M15"
    /\ alert_messages_to_send[2].type = "NEW_POI_M15"
    /\ alert_messages_to_send[1].index # alert_messages_to_send[2].index
    /\ alert_messages_to_send[3].type = "PRICE_ENTERING_POI"

\* C8: when the detection phase of a cycle does not complete (the analysis
\* raises, or returns no list), no step of that cycle changes the mapping: no
\* zone is added or removed and no arrival_alerted flag changes.
C8_FailedDetectionKeepsMapping ==
    [][ (\/ pc' = "error"
         \/ pc = "error"
         \/ (pc \in {"arrival", "send", "wait"} /\ ~is_list))
        => active_pois_dict' = active_pois_dict
      ]_vars

\* C9: a cycle whose series is missing, empty or shorter than the analysis
\* window (and only such a cycle) is skipped: it goes to the 60 s sleep, the
\* mapping is untouched, no alert is queued, and the sleep leads back to the
\* start of a cycle.
C9_InsufficientDataSkips ==
    /\ [](pc = "sleep_60" =>
            /\ (df = 0 \/ df < STRATEGY_M15_RANGE_CANDLES)
            /\ alert_messages_to_send = <<>>)
    /\ [][ /\ pc = "cycle_start" =>
               /\ (df' = 0 \/ df' < STRATEGY_M15_RANGE_CANDLES)
                    <=> pc' = "sleep_60"
               /\ active_pois_dict' = active_pois_dict
               /\ alert_messages_to_send' = <<>>
           /\ pc = "sleep_60" =>
               /\ pc' = "cycle_start"
               /\ active_pois_dict' = active_pois_dict
               /\ alert_messages_to_send' = <<>>
         ]_vars

\* C9 witness: a cycle is being skipped for a series one candle short while
\* zones are tracked, one of them alerted, and enough older data is stored.
C9_Witness ==
    /\ pc = "sleep_60"
    /\ df = STRATEGY_M15_RANGE_CANDLES - 1
    /\ \E k \in Keys(active_pois_dict) : Get(active_pois_dict, k).arrival_alerted

\* C10: when step 4 gets no quote, the arrival check changes no flag and
\* queues no ZoneArrived alert, while what the diff step did stays: the new
\* zones are tracked with their NewZone alerts queued and the zones not found
\* are gone.
C10_NoQuoteSuspendsArrival ==
    /\ []((pc \in {"send", "wait"} /\ live_price_data = NoTick) =>
            /\ \A k \in Timestamps : ~HasAlert(ZoneArrived(k))
            /\ is_list =>
                  /\ Keys(active_pois_dict) = found_indices
                  /\ \A k \in found_indices \ current_active_indices :
                        /\ HasAlert(NewZone(k))
                        /\ ~Get(active_pois_dict, k).arrival_alerted)
    /\ [][ (pc = "arrival" /\ live_price_data' = NoTick) =>
             /\ active_pois_dict' = active_pois_dict
             /\ alert_messages_to_send' = alert_messages_to_send
             /\ pc' = "send"
         ]_vars

\* C10 witness: a cycle without a quote has added a zone, dropped another and
\* kept an alerted zone alerted.
C10_Witness ==
    /\ pc = "send"
    /\ live_price_data = NoTick
    /\ is_list
    /\ current_active_indices \ found_indices # {}
    /\ \E k \in found_indices \ current_active_indices :
          HasAlert(NewZone(k)) /\ k \in Keys(active_pois_dict)

\* C10 second case of the witness: an alerted zone stays alerted.
C10_WitnessAlertedKept ==
    /\ pc = "send"
    /\ live_price_data = NoTick
    /\ \E k \in Keys(active_pois_dict) : Get(active_pois_dict, k).arrival_alerted

\* C11: the end of a notification task, failed or not, changes nothing of the
\* mapping; tasks are made in step 5 only, and from the first statement of
\* step 5 to the end of the cycle the mapping is not changed, so every change
\* of a cycle precedes the deliveries of that cycle and waits for none.
C11_DeliveryNeverRollsBack ==
    /\ [][ send_tasks' < send_tasks =>
             /\ active_pois_dict' = active_pois_dict
             /\ pc' = pc
         ]_vars
    /\ [][ send_tasks' > send_tasks => (pc = "send" /\ pc' = "send_sleep") ]_vars
    /\ [][ (pc \in {"send", "send_sleep", "wait"}) =>
             active_pois_dict' = active_pois_dict ]_vars

\* C11 witness: every task of the cycle has ended, the last of them in
\* failure, and the zone whose arrival was notified is tracked and alerted.
C11_Witness ==
    /\ pc = "send_sleep"
    /\ n_sent = Len(alert_messages_to_send)
    /\ send_tasks = 0
    /\ delivery_log = "failed"
    /\ \E k \in Keys(active_pois_dict) :
          HasAlert(ZoneArrived(k)) /\ Get(active_pois_dict, k).arrival_alerted

\* The mapping is between the start of the diff step and the end of the
\* arrival check.
HalfUpdated == pc \in {"diff", "arrival"}

\* C12: while the mapping is being updated no other coroutine takes a step;
\* a step of the /verpoi handler or of a notification task happens with the
\* loop outside steps 2 to 4, leaves the loop's state alone, and the handler
\* replies "no POIs" exactly when the mapping it reads is empty.
C12_NoInterleavingInUpdate ==
    /\ [][ (HalfUpdated \/ pc = "analyze") => UNCHANGED async_vars ]_vars
    /\ [][ (verpoi_reply' # verpoi_reply \/ send_tasks' < send_tasks) =>
             /\ ~HalfUpdated
             /\ UNCHANGED loop_vars
         ]_vars
    /\ [][ verpoi_reply' # verpoi_reply =>
             (verpoi_reply' = "no_pois" <=> active_pois_dict = <<>>) ]_vars

\* C12 witness: the handler has listed a mapping that was empty when the
\* cycle began, while the loop sleeps between two notifications.
C12_Witness ==
    /\ pc = "send_sleep"
    /\ verpoi_reply = "listing"
    /\ current_active_indices = {}
    /\ Len(active_pois_dict) = 2
    /\ delivery_log = "none"

\* The zone has its levels and a direction, so the check reaches the candles.
ZoneComplete == poi_candidate.level_50 # NoPrice /\ poi_candidate.direction \in Directions

\* Positions (from 0) of the candles after the formation candle.
AfterFormation == (poi_iloc + 1)..(Len(candles) - 1)

\* The retracement that mitigates: a low at or below the mid level for a
\* Bullish zone, a high at or above it for a Bearish zone.
Retraces(poi, c) ==
    \/ poi.direction = "Bullish" /\ c.Low <= poi.level_50
    \/ poi.direction = "Bearish" /\ c.High >= poi.level_50

\* C13: a zone is mitigated exactly when some candle after its formation
\* retraces to the mid level: low <= mid for a Bullish zone, high >= mid for a
\* Bearish zone, and by no other candle condition.
C13_MitigationRule ==
    (mit_checked /\ ZoneComplete) =>
        (mitigated <=> \E i \in AfterFormation : Retraces(poi_candidate, Iloc(candles, i)))

\* The candle condition under which the check itself reports mitigation.
Mitigates(poi, c) ==
    \/ poi.direction = "Bearish" /\ c.Low <= poi.level_50
    \/ poi.direction = "Bullish" /\ c.High >= poi.level_50

\* C14: for a grace window of g candles, a zone whose mid level is reached
\* only by candles inside the window (the g candles that follow formation) is
\* not mitigated, and a zone with no candle after formation is not mitigated.
C14_GraceAndExhaustion ==
    (mit_checked /\ ZoneComplete) =>
        /\ AfterFormation = {} => ~mitigated
        /\ \A g \in 0..MaxAfter :
              (\A i \in AfterFormation :
                    i > poi_iloc + g => ~Mitigates(poi_candidate, Iloc(candles, i)))
              => ~mitigated

\* C15: the check is run again on the same zone each time a candle is
\* appended; once it has returned true it returns true on every longer frame.
C15_MitigationMonotone == [][ mitigated => mitigated' ]_vars

\* C15 witness: the check is true on a frame whose newest candle does not
\* reach the mid level, an earlier one having reached it.
C15_Witness ==
    /\ mit_checked
    /\ ZoneComplete
    /\ mitigated
    /\ Len(candles) = poi_iloc + 1 + MaxAfter
    /\ ~Mitigates(poi_candidate, Iloc(candles, Len(candles) - 1))
    /\ ~Mitigates(poi_candidate, Iloc(candles, poi_iloc))

\* Positions (from 0) of the frame, and the two marks of a position.
Rows == 0..(Len(candles) - 1)

MarkedHigh(i) == Iloc(df_with_swings, i).SwingHigh # NaN

MarkedLow(i) == Iloc(df_with_swings, i).SwingLow # NaN

\* C16: a position with lookback candles on both sides is a swing High
\* exactly when its high is strictly above the highs of the lookback candles
\* before and after it, and a swing Low exactly when its low is strictly
\* below their lows; the first and last lookback positions are never marked
\* and a frame shorter than 2 * lookback + 1 has no mark.
C16_SwingRule ==
    /\ Len(df_with_swings) = Len(candles)
    /\ \A i \in Rows :
          IF i >= lookback /\ i + lookback <= Len(candles) - 1
          THEN /\ MarkedHigh(i) <=>
                     \A j \in 1..lookback :
                        /\ Iloc(candles, i).High > Iloc(candles, i - j).High
                        /\ Iloc(candles, i).High > Iloc(candles, i + j).High
               /\ MarkedLow(i) <=>
                     \A j \in 1..lookback :
                        /\ Iloc(candles, i).Low < Iloc(candles, i - j).Low
                        /\ Iloc(candles, i).Low < Iloc(candles, i + j).Low
               /\ MarkedHigh(i) => Iloc(df_with_swings, i).SwingHigh = Iloc(candles, i).High
               /\ MarkedLow(i) => Iloc(df_with_swings, i).SwingLow = Iloc(candles, i).Low
          ELSE ~MarkedHigh(i) /\ ~MarkedLow(i)
    /\ Len(candles) < 2 * lookback + 1 =>
          \A i \in Rows : ~MarkedHigh(i) /\ ~MarkedLow(i)

\* C16 witness: with a window of 2 the middle of five candles is both a swing
\* High and a swing Low, and no other position is marked.
C16_Witness ==
    /\ lookback = 2
    /\ Len(candles) = 5
    /\ MarkedHigh(2) /\ MarkedLow(2)
    /\ \A i \in Rows \ {2} : ~MarkedHigh(i) /\ ~MarkedLow(i)

\* Highs and lows both rise strictly from each candle to the next.
StrictlyIncreasing ==
    \A i \in Rows : i > 0 =>
        /\ Iloc(candles, i).High > Iloc(candles, i - 1).High
        /\ Iloc(candles, i).Low > Iloc(candles, i - 1).Low

\* Position i is a spike: every neighbour within the window exists, and all
\* of them have one and the same high, lower than the high of i.
Spike(i) ==
    /\ i >= lookback /\ i + lookback <= Len(candles) - 1
    /\ \E flat \in 1..MaxPrice :
          /\ flat < Iloc(candles, i).High
          /\ \A j \in 1..lookback :
                /\ Iloc(candles, i - j).High = flat
                /\ Iloc(candles, i + j).High = flat

\* C17: on a strictly increasing run no position is a swing Low; a spike
\* among equal lower neighbours is a swing High and none of those neighbours
\* is one.
C17_SwingStrictness ==
    /\ StrictlyIncreasing => \A i \in Rows : ~MarkedLow(i)
    /\ \A i \in Rows : Spike(i) =>
          /\ MarkedHigh(i)
          /\ \A j \in 1..lookback : ~MarkedHigh(i - j) /\ ~MarkedHigh(i + j)

\* C17 witness: three strictly rising candles under a window of 1, the middle
\* one having both neighbours.
C17_Witness ==
    /\ lookback = 1
    /\ Len(candles) = 3
    /\ StrictlyIncreasing

\* C17, second case: a spike between flat lower neighbours, window of 2.
C17_WitnessSpike ==
    /\ lookback = 2
    /\ Len(candles) = 5
    /\ Spike(2)

\* The gaps of the list formed at the middle candle i - 1.
GapsAt(i) == {n \in 1..Len(fvgs) : fvgs[n].index = i - 1}

\* C18: for every position i >= 2 the list holds a Bullish gap with top =
\* low[i] and bottom = high[i-2] exactly when low[i] > high[i-2], and a
\* Bearish gap with top = low[i-2] and bottom = high[i] exactly when
\* high[i] < low[i-2]; nothing else is in the list, every gap has top >
\* bottom, mid = (top + bottom) / 2 and the middle candle i - 1 as formation
\* index, gaps come in the order of i, and fewer than 3 candles give none.
C18_GapRule ==
    /\ \A i \in 2..(Len(candles) - 1) :
          LET bull == [index |-> i - 1, top |-> Iloc(candles, i).Low,
                       bottom |-> Iloc(candles, i - 2).High, type |-> "Bullish",
                       mid |-> Iloc(candles, i).Low + Iloc(candles, i - 2).High]
              bear == [index |-> i - 1, top |-> Iloc(candles, i - 2).Low,
                       bottom |-> Iloc(candles, i).High, type |-> "Bearish",
                       mid |-> Iloc(candles, i - 2).Low + Iloc(candles, i).High]
          IN  /\ (\E n \in GapsAt(i) : fvgs[n] = bull)
                    <=> Iloc(candles, i).Low > Iloc(candles, i - 2).High
              /\ (\E n \in GapsAt(i) : fvgs[n] = bear)
                    <=> Iloc(candles, i).High < Iloc(candles, i - 2).Low
              /\ \A n \in GapsAt(i) : fvgs[n] \in {bull, bear}
              /\ Cardinality(GapsAt(i)) <= 1
    /\ \A n \in 1..Len(fvgs) :
          /\ fvgs[n].top > fvgs[n].bottom
          /\ fvgs[n].mid = fvgs[n].top + fvgs[n].bottom
          /\ fvgs[n].index \in 1..(Len(candles) - 2)
          /\ n > 1 => fvgs[n - 1].index < fvgs[n].index
    /\ Len(candles) < 3 => fvgs = <<>>

\* C18 witness: three candles, the third wholly above the first; one Bullish
\* gap formed at the middle candle, its mid a half.
C18_Witness ==
    /\ Len(candles) = 3
    /\ Len(fvgs) = 1
    /\ fvgs[1].type = "Bullish"
    /\ fvgs[1].index = 1
    /\ fvgs[1].mid % 2 = 1

\* C18, the Bearish case next to a Bullish one in the same list.
C18_WitnessBoth ==
    \E n, m \in 1..Len(fvgs) : fvgs[n].type = "Bullish" /\ fvgs[m].type = "Bearish"

\* The resolver has been called on the frame.
BosDone == range_high_idx # NoIdx

\* Labels of the swing highs before `label`, and of the swing lows.
HighsBefore(label) ==
    {i \in 0..(Len(df_with_swings) - 1) :
        Iloc(df_with_swings, i).SwingHigh # NaN /\ i < label}

LowsBefore(label) ==
    {i \in 0..(Len(df_with_swings) - 1) :
        Iloc(df_with_swings, i).SwingLow # NaN /\ i < label}

\* a and b are neighbours in the set S of labels, a the earlier.
Adjacent(S, a, b) == a \in S /\ b \in S /\ a < b /\ ~\E c \in S : a < c /\ c < b

\* A pair of adjacent swing highs before the range high that breaks upwards:
\* the later is higher and a swing low lies strictly between them.
BreaksUp(a, b) ==
    /\ Adjacent(HighsBefore(range_high_idx), a, b)
    /\ Iloc(df_with_swings, b).SwingHigh > Iloc(df_with_swings, a).SwingHigh
    /\ \E l \in LowsBefore(Len(df_with_swings)) : a < l /\ l < b

\* The same downwards, on swing lows before the range low.
BreaksDown(a, b) ==
    /\ Adjacent(LowsBefore(range_low_idx), a, b)
    /\ Iloc(df_with_swings, b).SwingLow < Iloc(df_with_swings, a).SwingLow
    /\ \E h \in HighsBefore(Len(df_with_swings)) : a < h /\ h < b

Labels == 0..(Len(df_with_swings) - 1)

\* C19: the break-up candidate sits at B of the latest adjacent pair (A, B)
\* of swing highs before the range high with price(B) > price(A) and a swing
\* low strictly between; the break-down candidate likewise on the swing lows
\* before the range low, with price(B) < price(A) and a swing high between;
\* a candidate is absent exactly when no such pair exists.
C19_BreakCandidates ==
    BosDone =>
        /\ (last_bos_up = NoBos) <=> ~\E a, b \in Labels : BreaksUp(a, b)
        /\ \A a, b \in Labels :
              (BreaksUp(a, b) /\ ~\E c, d \in Labels : BreaksUp(c, d) /\ d > b)
              => last_bos_up = [type |-> "BOS_Up", index |-> b,
                                broken_level |-> Iloc(df_with_swings, a).SwingHigh,
                                price |-> Iloc(df_with_swings, b).SwingHigh]
        /\ (last_bos_down = NoBos) <=> ~\E a, b \in Labels : BreaksDown(a, b)
        /\ \A a, b \in Labels :
              (BreaksDown(a, b) /\ ~\E c, d \in Labels : BreaksDown(c, d) /\ d > b)
              => last_bos_down = [type |-> "BOS_Down", index |-> b,
                                  broken_level |-> Iloc(df_with_swings, a).SwingLow,
                                  price |-> Iloc(df_with_swings, b).SwingLow]

\* C19 witness: the latest pair of swing highs before the range high does
\* not break upwards, an earlier pair does, and the candidate is at that one.
C19_Witness ==
    /\ BosDone
    /\ last_bos_up # NoBos
    /\ \E a, b \in Labels :
          /\ Adjacent(HighsBefore(range_high_idx), a, b)
          /\ b > last_bos_up.index

\* C20: of two candidates the one with the later label is returned, a single
\* candidate is returned as it is, none gives none; the bias is Bullish for
\* an upward break, Bearish for a downward one, Undetermined for none.
C20_FinalBosAndBias ==
    BosDone =>
        /\ (last_bos_up # NoBos /\ last_bos_down # NoBos) =>
              /\ last_bos_up.index # last_bos_down.index
              /\ last_bos_up.index > last_bos_down.index => final_bos = last_bos_up
              /\ last_bos_down.index > last_bos_up.index => final_bos = last_bos_down
        /\ (last_bos_up # NoBos /\ last_bos_down = NoBos) => final_bos = last_bos_up
        /\ (last_bos_up = NoBos /\ last_bos_down # NoBos) => final_bos = last_bos_down
        /\ (last_bos_up = NoBos /\ last_bos_down = NoBos) => final_bos = NoBos
        /\ bias = "Bullish" <=> final_bos.type = "BOS_Up"
        /\ bias = "Bearish" <=> final_bos.type = "BOS_Down"
        /\ bias = "Undetermined" <=> final_bos = NoBos

\* C20 witness: both candidates exist, the downward one is the later and is
\* returned, and the bias is Bearish.
C20_Witness ==
    /\ BosDone
    /\ last_bos_up # NoBos
    /\ last_bos_down # NoBos
    /\ last_bos_down.index > last_bos_up.index
    /\ final_bos = last_bos_down
    /\ bias = "Bearish"

\* C20, the other order: the upward candidate is the later one.
C20_WitnessUpLater ==
    /\ BosDone
    /\ last_bos_up # NoBos
    /\ last_bos_down # NoBos
    /\ last_bos_up.index > last_bos_down.index
    /\ bias = "Bullish"

\* ------------------------------------------------- claims on the zone finder
\* analyze_m15_setup went as far as the zone finder: the series is long
\* enough and the bias is determined.
FinderRan == Len(m15_df) >= NumCandles /\ setup_bias \in Directions

PoiFound == high_prob_poi.type # None

Row(i) == m15_df[i + 1]

\* Positions the scan visits in a series of n candles.
ScanWindow ==
    {i \in 1..(Len(m15_df) - 2) : i >= Len(m15_df) - ScanCandles}

\* Colour opposite to the bias.
OppositeColour(i) ==
    IF setup_bias = "Bearish" THEN Row(i).Close > Row(i).Open
    ELSE Row(i).Close < Row(i).Open

\* The whole [low, high] of the candle inside the search sub-range (levels of
\* the range in halves).
InSubRange(i) ==
    IF setup_bias = "Bearish"
    THEN tr_24h.eq <= 2 * Row(i).Low /\ 2 * Row(i).High <= tr_24h.high
    ELSE tr_24h.low <= 2 * Row(i).Low /\ 2 * Row(i).High <= tr_24h.eq

\* A gap of direction d whose middle candle is at position m of the series:
\* the candle after it and the candle before it leave a space between them.
GapFormedAt(m, d) ==
    /\ m >= 1
    /\ m <= Len(m15_df) - 2
    /\ IF d = "Bullish" THEN Row(m + 1).Low > Row(m - 1).High
       ELSE Row(m + 1).High < Row(m - 1).Low

\* A gap of the bias' direction formed on one of the FvgSearchLimit candles
\* that directly follow candle i.
GapAhead(i) ==
    \E m \in (i + 1)..(i + FvgSearchLimit) : GapFormedAt(m, setup_bias)

\* The candle takes out the extreme of the SweepLookback candles before it.
Swept(i) ==
    /\ i >= SweepLookback
    /\ \A j \in (i - SweepLookback)..(i - 1) :
          IF setup_bias = "Bearish" THEN Row(j).High < Row(i).High
          ELSE Row(j).Low > Row(i).Low

AllFour(i) == OppositeColour(i) /\ InSubRange(i) /\ GapAhead(i) /\ Swept(i)

\* C21: the zone finder returns the most recent candle of the scan window
\* that satisfies all four conditions, and None exactly when no candle of the
\* scan window satisfies them; an older qualifying candle is never returned
\* when a more recent one qualifies.
C21_MostRecentQualifying ==
    FinderRan =>
       LET Q == {i \in ScanWindow : AllFour(i)}
       IN  IF Q = {} THEN ~PoiFound
           ELSE /\ PoiFound
                /\ high_prob_poi.index \in Q
                /\ \A i \in Q : i <= high_prob_poi.index

\* Two candles of the scan window qualify and the newer one is returned.
C21_Witness ==
    /\ FinderRan
    /\ \E i, j \in ScanWindow :
          i < j /\ AllFour(i) /\ AllFour(j) /\ high_prob_poi.index = j

\* A candle older than others qualifies alone and is returned.
C21_WitnessOlderAlone ==
    /\ FinderRan
    /\ PoiFound
    /\ high_prob_poi.index < Len(m15_df) - 3
    /\ setup_bias = "Bullish"

\* C22: a candle is accepted only if its whole [low, high] lies inside the
\* search sub-range, [equilibrium, range.high] for a Bearish bias and
\* [range.low, equilibrium] for a Bullish one; so a returned Bearish zone has
\* low >= equilibrium and a returned Bullish zone has high <= equilibrium.
C22_ZoneInsideSubRange ==
    (FinderRan /\ PoiFound) =>
       /\ InSubRange(high_prob_poi.index)
       /\ high_prob_poi.direction = "Bearish" => 2 * high_prob_poi.low >= tr_24h.eq
       /\ high_prob_poi.direction = "Bullish" => 2 * high_prob_poi.high <= tr_24h.eq

\* A Bearish zone is returned whose lower edge is the equilibrium itself.
C22_Witness ==
    /\ FinderRan
    /\ PoiFound
    /\ setup_bias = "Bearish"
    /\ 2 * high_prob_poi.low = tr_24h.eq

\* A candle of the scan window has the colour, the gap and the sweep but
\* reaches across the equilibrium, and is passed over.
C22_WitnessPassedOver ==
    /\ FinderRan
    /\ \E j \in ScanWindow :
          /\ OppositeColour(j) /\ GapAhead(j) /\ Swept(j)
          /\ ~InSubRange(j)
          /\ high_prob_poi.index # j

\* Candles of the scan window the scan came to before it stopped: all of
\* them when nothing is returned, else those newer than the returned one.
PassedOver ==
    {j \in ScanWindow : ~PoiFound \/ j > high_prob_poi.index}

\* C23: the liquidity-sweep check compares the candidate with the
\* SweepLookback candles immediately before it, the candidate excluded:
\* with a Bearish bias it succeeds exactly when the candidate's high is
\* strictly above the highest high of that window, with a Bullish bias
\* exactly when its low is strictly below the lowest low of it.  So the
\* returned candle has swept, and a candle passed over that had the colour,
\* the zone and the gap has not.
C23_SweepRule ==
    FinderRan =>
       /\ PoiFound => Swept(high_prob_poi.index)
       /\ \A j \in PassedOver :
             (OppositeColour(j) /\ InSubRange(j) /\ GapAhead(j)) => ~Swept(j)

\* A zone is returned, and a newer candle with the colour, the zone and the
\* gap was passed over because it only equals the extreme of its window.
C23_Witness ==
    /\ FinderRan
    /\ PoiFound
    /\ \E j \in PassedOver :
          /\ OppositeColour(j) /\ InSubRange(j) /\ GapAhead(j)
          /\ j >= SweepLookback
          /\ \E k \in (j - SweepLookback)..(j - 1) :
                IF setup_bias = "Bearish" THEN Row(k).High = Row(j).High
                ELSE Row(k).Low = Row(j).Low
          /\ \A k \in (j - SweepLookback)..(j - 1) :
                IF setup_bias = "Bearish" THEN Row(k).High <= Row(j).High
                ELSE Row(k).Low >= Row(j).Low

\* The same with a Bullish bias: a falling candle below its window.
C23_WitnessBullish ==
    /\ FinderRan
    /\ PoiFound
    /\ setup_bias = "Bullish"

\* C24: a candle is accepted only if a gap whose direction is the bias has
\* its formation timestamp among the FvgSearchLimit candles that directly
\* follow it; gaps of the other direction, gaps formed at or before the
\* candle and gaps formed later than the lookahead do not count.  So the
\* returned candle has such a gap (the one kept in fvg_details), and a
\* candle passed over that had the colour, the zone and the sweep has none.
C24_GapConfluence ==
    FinderRan =>
       /\ PoiFound =>
             /\ GapAhead(high_prob_poi.index)
             /\ high_prob_poi.fvg_details.type = setup_bias
             /\ high_prob_poi.fvg_details.index \in
                   (high_prob_poi.index + 1)..(high_prob_poi.index + FvgSearchLimit)
             /\ \E n \in 1..Len(recent_fvgs) :
                   recent_fvgs[n] = high_prob_poi.fvg_details
       /\ \A j \in PassedOver :
             (OppositeColour(j) /\ InSubRange(j) /\ Swept(j)) => ~GapAhead(j)

\* A candle with colour, zone and sweep is passed over although a gap of
\* the bias' direction was formed on the candle itself or before it.
C24_Witness ==
    /\ FinderRan
    /\ \E j \in PassedOver :
          /\ OppositeColour(j) /\ InSubRange(j) /\ Swept(j)
          /\ \E m \in 0..j : GapFormedAt(m, setup_bias)

\* ... although a gap of the bias' direction was formed past the lookahead.
C24_WitnessTooLate ==
    /\ FinderRan
    /\ \E j \in PassedOver :
          /\ OppositeColour(j) /\ InSubRange(j) /\ Swept(j)
          /\ \E m \in (j + FvgSearchLimit + 1)..Len(m15_df) :
                GapFormedAt(m, setup_bias)

\* ... although a gap of the other direction was formed inside the lookahead.
C24_WitnessOtherDirection ==
    /\ FinderRan
    /\ \E j \in PassedOver :
          /\ OppositeColour(j) /\ InSubRange(j) /\ Swept(j)
          /\ \E m \in (j + 1)..(j + FvgSearchLimit) :
                GapFormedAt(m, IF setup_bias = "Bullish" THEN "Bearish" ELSE "Bullish")

\* A zone is returned whose gap is the last one the lookahead allows.
C24_WitnessFound ==
    /\ FinderRan
    /\ PoiFound
    /\ high_prob_poi.fvg_details.index = high_prob_poi.index + FvgSearchLimit

\* low <= mid <= high with mid = (low + high) / 2, the mid held in halves.
WellOrdered(z) ==
    /\ 2 * z.low <= z.level_50
    /\ z.level_50 <= 2 * z.high
    /\ z.level_50 = z.low + z.high

\* C25: every zone the finder produces from well-formed candles, and every
\* tracked zone built from it, has low <= mid <= high with
\* mid = (low + high) / 2, in every state the mapping reaches.
C25_ZoneLevelsOrdered ==
    /\ PoiFound => WellOrdered(high_prob_poi)
    /\ \A n \in 1..Len(active_pois_dict) : WellOrdered(active_pois_dict[n])

\* A zone narrower than its candle is tracked: the zone runs from the open
\* of the candle to its high.
C25_Witness ==
    /\ PoiFound
    /\ active_pois_dict # <<>>
    /\ active_pois_dict[1].index = high_prob_poi.index
    /\ active_pois_dict[1].low < active_pois_dict[1].high
    /\ active_pois_dict[1].low > Row(high_prob_poi.index).Low

\* C30: the zone finder returns neither of the two most recent candles of
\* the series nor a candle older than the scan window: in a series of n
\* candles the position i of the returned candle (counted from 0) satisfies
\* max(1, n - ScanCandles) <= i <= n - 3.
C30_ReturnedPosition ==
    (FinderRan /\ PoiFound) =>
       /\ high_prob_poi.index >= 1
       /\ high_prob_poi.index >= Len(m15_df) - ScanCandles
       /\ high_prob_poi.index <= Len(m15_df) - 3

\* A candle older than the scan window satisfies all four conditions, and
\* the candle returned is the oldest one of the scan window.
C30_Witness ==
    /\ FinderRan
    /\ \E i \in 1..(Len(m15_df) - ScanCandles - 1) : AllFour(i)
    /\ high_prob_poi.index = Len(m15_df) - ScanCandles

\* Such a candle satisfies all four conditions and nothing is returned.
C30_WitnessOlderOnly ==
    /\ FinderRan
    /\ \E i \in 1..(Len(m15_df) - ScanCandles - 1) : AllFour(i)
    /\ ~PoiFound

\* The third most recent candle is returned.
C30_WitnessNewest ==
    /\ FinderRan
    /\ high_prob_poi.index = Len(m15_df) - 3

\* ------------------------------------------------ claims on the whole cycle
\* C26: in every cycle in which the data update succeeds and the stored
\* series has at least STRATEGY_M15_RANGE_CANDLES candles (the loop is at
\* step 2), the loop obtains a candidate list from the analyzer and reaches
\* the diff step on it, so that a qualifying zone is eventually tracked and
\* announced.
C26_AnalysisReachesDiff == [][ (pc = "analyze") => (pc' = "diff") ]_vars

\* C27: a cycle that raises an exception never ends the analysis loop: the
\* handler attempts one error notification bounded by a 10 s timeout, waits
\* 60 s and a new cycle starts, however many cycles fail in a row.
C27_ErrorNeverEndsLoop ==
    /\ [][ (pc = "error") => (pc' = "cycle_start" /\ active_pois_dict' = active_pois_dict) ]_vars
    /\ (pc = "error") ~> (pc = "cycle_start")
    /\ []<>(pc = "cycle_start")

\* A cycle fails while zones are tracked, that is after earlier cycles.
C27_Witness ==
    /\ pc = "error"
    /\ active_pois_dict # <<>>

\* C28: the events of one cycle are delivered to the notification sink in
\* the order they were emitted, also when a delivery attempt of an earlier
\* event fails and is retried while a later event of the same cycle is sent.
C28_DeliveredInOrder ==
    \A m, n \in 1..Len(delivered) : m < n => delivered[m] < delivered[n]

\* C29: after the diff step of a cycle whose analysis returned a list, and
\* until the diff step of a later cycle, the indices in the mapping are
\* exactly the indices of that list (found_indices): an index not tracked
\* before enters with the list that first has it, a tracked index the list
\* no longer has leaves, and a tracked index the list still has keeps the
\* record it had.
C29_MappingTracksList ==
    /\ []((is_list /\ pc # "diff") => Keys(active_pois_dict) = found_indices)
    /\ [][ (pc = "diff" /\ pc' = "arrival") =>
              /\ Keys(active_pois_dict') = found_indices
              /\ \A k \in current_active_indices \cap found_indices :
                    Get(active_pois_dict', k) = Get(active_pois_dict, k)
         ]_vars
    /\ [][ (pc = "diff") =>
              \A k \in Keys(active_pois_dict) \cap Keys(active_pois_dict') :
                 k \in current_active_indices =>
                    Get(active_pois_dict', k) = Get(active_pois_dict, k)
         ]_vars

\* C29 witness: the diff of a list has ended with the tracked index dropped
\* and a new one entered.
C29_Witness ==
    /\ pc = "arrival"
    /\ is_list
    /\ current_active_indices \ found_indices # {}
    /\ found_indices \ current_active_indices # {}
    /\ Keys(active_pois_dict) = found_indices

\* C29 witness: one tracked index is kept, with its arrival already alerted,
\* next to a new one.
C29_WitnessKept ==
    /\ pc = "arrival"
    /\ is_list
    /\ found_indices \ current_active_indices # {}
    /\ \E k \in current_active_indices \cap found_indices :
          Get(active_pois_dict, k).arrival_alerted

\* C29 witness: the list was empty and the mapping, which was not, is empty.
C29_WitnessEmptyList ==
    /\ pc = "arrival"
    /\ is_list
    /\ current_active_indices # {}
    /\ found_indices = {}
    /\ active_pois_dict = <<>>

Failed(k) == outcomes[k] # "initialized"

CallReturned == call.at \in {"return_True", "return_False"}

\* Attempts range(retries) allows.
MostAttempts == IF retries > 0 THEN retries ELSE 0

\* C31: connect_mt5 makes at most `retries` attempts and returns; True at
\* the first attempt that initialises, with no attempt after it; False
\* exactly when `retries` attempts were made and all failed; it has slept
\* `delay` after every failed attempt but the last of the `retries`.
C31_ConnectTerminates ==
    /\ [](Len(outcomes) <= MostAttempts)
    /\ [](\A k \in 1..(Len(outcomes) - 1) : Failed(k))
    /\ [](call.at = "return_True" <=>
            (outcomes # <<>> /\ ~Failed(Len(outcomes))))
    /\ [](call.at = "return_False" <=>
            (call.at # "idle" /\ Len(outcomes) = MostAttempts
               /\ \A k \in 1..Len(outcomes) : Failed(k)))
    /\ [](result = IF CallReturned THEN <<call.at = "return_True">> ELSE <<>>)
    /\ [](CallReturned =>
            sleeps = [k \in 1..Len(sleeps) |-> [after |-> k - 1, seconds |-> delay]])
    /\ [](CallReturned =>
            Len(sleeps) = Cardinality({k \in 1..Len(outcomes) :
                                         Failed(k) /\ k < retries}))
    /\ (call.at # "idle") ~> CallReturned
    /\ [][ CallReturned => UNCHANGED call_vars ]_vars

\* C31 witness: the call returned True at its second attempt of several, after
\* one sleep.
C31_Witness ==
    /\ call.at = "return_True"
    /\ retries > 2
    /\ Len(outcomes) = 2
    /\ Len(sleeps) = 1

\* C31 witness: all of three or more attempts failed, one by an exception,
\* one by a false result; the last was not followed by a sleep.
C31_WitnessAllFailed ==
    /\ call.at = "return_False"
    /\ retries > 2
    /\ Len(outcomes) = retries
    /\ Len(sleeps) = retries - 1
    /\ \E j, k \in 1..Len(outcomes) :
          outcomes[j] = "exception" /\ outcomes[k] = "not_initialized"

\* C31 witness: with retries = 0 the call returns False without an attempt.
C31_WitnessNoAttempt ==
    /\ call.at = "return_False"
    /\ retries = 0
    /\ outcomes = <<>>

\* C32: send_telegram_message_async makes at most `retries` attempts; it
\* returns True exactly when its last attempt was sent, and no attempt
\* follows one that was sent or one that got a BadRequest, which returns
\* False; an attempt answered with RetryAfter counts as one of the
\* `retries`; without a bot or a chat id the call returns False with no
\* attempt made.
C32_SendAttempts ==
    /\ [](Len(outcomes) <= MostAttempts)
    /\ [](\A k \in 1..(Len(outcomes) - 1) :
             outcomes[k] \notin {"sent", "BadRequest"})
    /\ [](call.at = "return_True" <=>
             (outcomes # <<>> /\ outcomes[Len(outcomes)] = "sent"))
    /\ []((outcomes # <<>> /\ outcomes[Len(outcomes)] = "BadRequest") =>
             call.at = "return_False")
    /\ [](result = IF CallReturned THEN <<call.at = "return_True">> ELSE <<>>)
    /\ []((call.at # "idle" /\ (~bot_ready \/ ~chat_id_set)) =>
             (call.at = "return_False" /\ outcomes = <<>>))
    /\ [](call.at = "send_message" => call.i = Len(outcomes))
    /\ [][ (call.at = "send_message" /\ call'.at = "sleep") =>
              /\ call'.i = call.i
              /\ outcomes'[Len(outcomes')] \in {"RetryAfter", "error"}
         ]_vars
    /\ [][ (call.at = "sleep") =>
              \/ call' = [i |-> call.i + 1, at |-> "send_message"]
                   /\ call.i + 1 < retries
              \/ call'.at = "return_False" /\ call.i + 1 >= retries
         ]_vars

\* C32 witness: the call returned True at its last attempt, after a
\* RetryAfter and an error.
C32_Witness ==
    /\ call.at = "return_True"
    /\ Len(outcomes) = retries
    /\ \E j, k \in 1..Len(outcomes) :
          outcomes[j] = "RetryAfter" /\ outcomes[k] = "error"

\* C32 witness: a BadRequest at the second of several attempts ended the call.
C32_WitnessBadRequest ==
    /\ call.at = "return_False"
    /\ retries > 2
    /\ Len(outcomes) = 2
    /\ outcomes[2] = "BadRequest"

\* C32 witness: every attempt was answered with RetryAfter, and the call
\* returned False after the sleep of the last.
C32_WitnessFlood ==
    /\ call.at = "return_False"
    /\ retries > 1
    /\ Len(outcomes) = retries
    /\ Len(sleeps) = retries
    /\ \A k \in 1..Len(outcomes) : outcomes[k] = "RetryAfter"

\* C32 witness: no chat id is configured.
C32_WitnessNotConfigured ==
    /\ call.at = "return_False"
    /\ bot_ready
    /\ ~chat_id_set
    /\ retries > 0
    /\ outcomes = <<>>

\* The provider gave the call that has just ended no data or no rows.
NoDataAfter ==
    \/ terminal' # "connected"
    \/ rates'.kind # "rates"
    \/ rates'.rows = 0

\* C33: a call of update_data for which the provider had no data or an empty
\* series returns False and leaves data_store and last_update_time as they
\* were; the store changes only in a call that got a non-empty series, and
\* then only at the timeframe of the call, which holds that series.
C33_FailedUpdateKeepsStore ==
    [][ /\ (update_arg' \in Timeframes /\ NoDataAfter) =>
              /\ update_result' = FALSE
              /\ tf_data_store' = tf_data_store
              /\ last_update_time' = last_update_time
        /\ (tf_data_store' # tf_data_store \/ last_update_time' # last_update_time) =>
              /\ update_arg' \in Timeframes
              /\ ~NoDataAfter
              /\ update_result' = TRUE
              /\ tf_data_store'[update_arg'].rows > 0
              /\ \A t \in Timeframes \ {update_arg'} :
                    /\ tf_data_store'[t] = tf_data_store[t]
                    /\ last_update_time'[t] = last_update_time[t]
      ]_vars

\* C33 witness: a series is stored for the timeframe and the call that has
\* ended got an empty array for it, later than the stored update.
C33_Witness ==
    /\ update_arg \in Timeframes
    /\ update_result = FALSE
    /\ rates = [kind |-> "rates", rows |-> 0]
    /\ tf_data_store[update_arg].rows > 0
    /\ last_update_time[update_arg] < clock

\* C33 witness: the same with a terminal that is not connected.
C33_WitnessNoConnection ==
    /\ update_arg \in Timeframes
    /\ update_result = FALSE
    /\ terminal = "not_connected"
    /\ tf_data_store[update_arg].rows > 0
    /\ last_update_time[update_arg] < clock

\* C33 witness: a stored series was replaced by a later one.
C33_WitnessReplaced ==
    /\ update_arg \in Timeframes
    /\ update_result = TRUE
    /\ tf_data_store[update_arg].last > 1
    /\ \E t \in Timeframes \ {update_arg} : tf_data_store[t].rows > 0

\* C34: a ZoneArrived alert is queued only for a timestamp that has had a
\* NewZone alert, in this cycle or an earlier one, and has not been popped
\* since; where both are queued in one cycle the NewZone alert comes first,
\* and both are queued when the quote is inside a zone found in that cycle.
C34_ArrivalAfterNewZone ==
    /\ [](\A k \in Timestamps : HasAlert(ZoneArrived(k)) => k \in announced)
    /\ [](\A i, j \in 1..Len(alert_messages_to_send) :
             (alert_messages_to_send[i].type = "PRICE_ENTERING_POI"
                /\ alert_messages_to_send[j] =
                      NewZone(alert_messages_to_send[i].index))
             => j < i)
    /\ [][ (pc = "arrival" /\ pc' = "send") =>
              \A k \in Timestamps :
                 Emitted(Appended, k) => (k \in announced /\ k \in announced')
         ]_vars
    /\ [][ (pc = "arrival" /\ pc' = "send" /\ active_pois_dict # <<>>
              /\ live_price_data' # NoTick) =>
              \A k \in found_indices \ current_active_indices :
                 Inside(Get(active_pois_dict, k), live_price_data') =>
                    (HasAlert(NewZone(k)) /\ Emitted(Appended, k))
         ]_vars

\* C34 witness: a zone found with the quote inside it has its NewZone and its
\* ZoneArrived alert in the queue of one cycle.
C34_Witness ==
    /\ pc = "send"
    /\ \E k \in found_indices \ current_active_indices :
          HasAlert(NewZone(k)) /\ HasAlert(ZoneArrived(k))

\* C34 witness: the arrival alert of a zone announced in an earlier cycle,
\* while another zone was popped in this one.
C34_WitnessLaterCycle ==
    /\ pc = "send"
    /\ current_active_indices \ found_indices # {}
    /\ \E k \in found_indices \cap current_active_indices :
          HasAlert(ZoneArrived(k)) /\ ~HasAlert(NewZone(k))

\* The record the mapping holds for a tracked timestamp.
Rec(d, k) == Get(d, k)

\* C35: in the diff step the record of every timestamp that was tracked
\* when the step began and is still tracked keeps its bounds, direction, kind
\* and arrival_alerted, whatever the candidate of that timestamp carries;
\* arrival_alerted of a tracked record changes only in the arrival check,
\* which changes nothing else of it.
C35_TrackedRecordKept ==
    [][ /\ (pc = "diff") =>
              \A k \in current_active_indices \cap Keys(active_pois_dict') :
                 Rec(active_pois_dict', k) = Rec(active_pois_dict, k)
        /\ \A k \in Keys(active_pois_dict) \cap Keys(active_pois_dict') :
              /\ Rec(active_pois_dict', k).arrival_alerted
                    # Rec(active_pois_dict, k).arrival_alerted
                 => (pc = "arrival" /\ pc' = "send")
              /\ (pc = "arrival") =>
                    Rec(active_pois_dict', k) =
                       [Rec(active_pois_dict, k) EXCEPT !.arrival_alerted =
                           Rec(active_pois_dict', k).arrival_alerted]
      ]_vars

\* C35 witness: the diff has ended on a list of one candidate, which had
\* the timestamp of a zone tracked with its arrival alerted; the record is
\* there with the flag set.
C35_Witness ==
    /\ pc = "arrival"
    /\ \E k \in current_active_indices \cap found_indices :
          /\ Rec(active_pois_dict, k).arrival_alerted
          /\ Rec(active_pois_dict, k).high = 1
          /\ Rec(active_pois_dict, k).type = "OB"
          /\ Rec(active_pois_dict, k).direction = "Bullish"
          /\ n_pois = 1

\* C36: when the diff step of a cycle has ended, the queue holds as many
\* NewZone alerts as the list had distinct indices that were not tracked
\* when the step began.
C36_OneNewZonePerTimestamp ==
    (pc = "arrival" /\ is_list) =>
       Cardinality({i \in 1..Len(alert_messages_to_send) :
                       alert_messages_to_send[i].type = "NEW_POI_M15"})
          = Cardinality(found_indices \ current_active_indices)

\* The two candidates of find_last_bos_in_range never carry the same label:
\* the break-up candidate needs a swing low strictly between the swing high
\* before it and itself, the break-down candidate a swing high strictly
\* between the swing low before it and itself, and on one row the two
\* exclude each other.  The `else` of the choice of final_bos is therefore
\* taken only with the break-down candidate strictly later.
BosLabelsDiffer ==
    (BosDone /\ last_bos_up # NoBos /\ last_bos_down # NoBos) =>
       last_bos_up.index # last_bos_down.index

\* A row marked in both columns is the later swing of a break candidate.
BothMarksAtCandidate ==
    /\ BosDone
    /\ \E p \in 1..Len(df_with_swings) :
          /\ df_with_swings[p].SwingHigh # NaN
          /\ df_with_swings[p].SwingLow # NaN
          /\ \/ (last_bos_up # NoBos /\ last_bos_up.index = p - 1)
             \/ (last_bos_down # NoBos /\ last_bos_down.index = p - 1)

\* The function has been called: it never returns 0.
TimerCalled == wait_seconds # 0

\* Milliseconds from the start of day 0 to the earliest instant after `ms`
\* that is a whole number of quarter hours into its day.
NextQuarterAfter(ms) == (ms \div 900000 + 1) * 900000

\* C38: the value returned is the time from now_utc to the earliest quarter
\* hour boundary strictly after it, on the same hour, the next hour or the
\* next day, plus 2 seconds, and lies between 1 and 902 seconds.
C38_NextQuarterPlusMargin ==
    TimerCalled =>
       /\ wait_seconds = NextQuarterAfter(TotalMs(now_utc)) - TotalMs(now_utc) + 2000
       /\ wait_seconds >= 1000
       /\ wait_seconds <= 902000
       /\ NextQuarterAfter(TotalMs(now_utc)) > TotalMs(now_utc)
       /\ FromMs(NextQuarterAfter(TotalMs(now_utc))).minute \in {0, 15, 30, 45}
       /\ FromMs(NextQuarterAfter(TotalMs(now_utc))).second = 0
       /\ FromMs(NextQuarterAfter(TotalMs(now_utc))).microsecond = 0

\* C38 witness: half a second before midnight the target is the next day and
\* the wait two and a half seconds.
C38_Witness ==
    /\ TimerCalled
    /\ now_utc.hour = 23
    /\ now_utc.minute = 59
    /\ now_utc.second = 59
    /\ now_utc.microsecond = 500000
    /\ wait_seconds = 2500
    /\ FromMs(TotalMs(now_utc) + wait_seconds - 2000).day = now_utc.day + 1

\* C38 witness: on a boundary the target is the next one: 902 seconds.
C38_WitnessOnBoundary ==
    /\ TimerCalled
    /\ now_utc.minute = 15
    /\ now_utc.second = 0
    /\ now_utc.microsecond = 0
    /\ wait_seconds = 902000

\* C38 witness: across an hour change within the day.
C38_WitnessHourChange ==
    /\ TimerCalled
    /\ now_utc.hour = 7
    /\ now_utc.minute = 52
    /\ now_utc.second = 30
    /\ wait_seconds = 7 * 60000 + 30000 + 2000

====
